---- MODULE Spec2Model ----
(***************************************************************************)
(* V2Limiter: usage enforcement (utils/check_usage.py), log ingestion and  *)
(* geolocation (utils/parse_logs.py), the Redis replica                    *)
(* (utils/redis_utils.py) and the config/Redis synchronizer                *)
(* (utils/special_limits_sync.py, utils/except_users_sync.py).             *)
(*                                                                         *)
(* All coroutines run on one asyncio event loop: the code between two      *)
(* awaits that really suspend (HTTP calls, bot.sendMessage, asyncio.sleep) *)
(* is one atomic step.  Redis calls use the blocking redis client and file *)
(* accesses are blocking, so they never suspend.                           *)
(***************************************************************************)
EXTENDS Integers, Sequences, FiniteSets, TLC

Users == {"alice", "bob"}
IPs == {"ip1", "ip2"}

\* bound: observations of one IP kept apart in one user's list
MaxCount == 3

\* bound: lines in one batch of parse_logs
MaxBatch == 2

\* the literal of "ip_counts[ip] > 2"
SeenThreshold == 2

\* a config key that may be missing holds <<>> (missing) or <<value>>
Absent == <<>>
GeneralVals == {1, 2}
SpecialVals == {0, 2}

\* the (user, ip) observations the ingestion path delivers
ObsPairs == {<<"alice", "ip1">>, <<"alice", "ip2">>, <<"bob", "ip1">>}

\* the country codes the lookup endpoints answer with, and check_ip's None
Codes == {"IR", "DE"}
NoCountry == "absent"

\* the IPs of the log lines that go through the location filter, their user
GeoIPs == {"ip1"}
GeoUsers == {"alice"}

\* the coroutines that may be inside check_ip at the same time
Tasks == {"t1", "t2"}

CACHE_TTL == 3 * 24 * 60 * 60
\* len(API_ENDPOINTS)
NumEndpoints == 4
\* the literal of "len(IP_CACHE) % 20 == 0"
FlushEvery == 20
\* the step of the clock; a lookup (at most 4 requests of 3 s) takes no time
Day == 24 * 60 * 60
\* bound: the clock stops after MaxDays days
MaxDays == 4

VARIABLES
    ACTIVE_USERS,    \* check_usage.ACTIVE_USERS: dict in insertion order, email -> UserType.ip
    all_users_log,   \* check_users_usage: keys of the snapshot dict, in sorted order;
                     \* its values are the very list objects of ACTIVE_USERS (aliases)
    pc,              \* position of the scheduler task
    idx,             \* position of the for loop over all_users_log.items()
    config_data,     \* check_users_usage: the config read at the start of the cycle
    disabled_count,  \* check_users_usage: disable calls that succeeded in this cycle
    disable_calls,   \* users passed to disable_user in the current cycle
    purge_failed,    \* a Redis operation of the last purge failed
    delay,           \* the argument of the asyncio.sleep the scheduler is in, else 0
    config,          \* config.json: GENERAL_LIMIT, SPECIAL_LIMIT, EXCEPT_USERS,
                     \* ENABLE_IP_LOCATION_CHECK, IP_LOCATION, CHECK_INTERVAL and
                     \* PANEL_DOMAIN (with it PANEL_USERNAME and PANEL_PASSWORD),
                     \* INVALID_IPS
    service_ips,     \* Redis hash "service_ips": service -> set of IPs
    redis_special_limits,  \* Redis key "special_limits": username -> limit
    redis_except_users,    \* Redis key "except_users"
    mut,             \* the synchronizer mutator in progress or last finished
    running,         \* the process is up
    now,             \* time.time()
    CACHE,           \* parse_logs.CACHE: ip -> country code
    IP_CACHE,        \* parse_logs.IP_CACHE: ip -> [country_code, timestamp]
    cache_file,      \* ip_location_cache.json
    VALID_IPS,       \* parse_logs.VALID_IPS
    INVALID_IPS,     \* parse_logs.INVALID_IPS
    task,            \* the coroutines that call check_ip: position and locals
    resolved,        \* history: first and latest successful lookup of each IP
    bot,             \* the admin's Telegram conversation: state, last message, reply
    pending,         \* history: the last console edit whose push to Redis failed
    batch,           \* history: the lines of the last batch parse_logs was given
    response,        \* the answer of the API to its last request
    initialized,     \* RedisClient._initialized of the running process
    last_update_timestamp,  \* Redis key "last_update_timestamp", or Absent
    last_refresh_time       \* api.main.last_refresh_time

syncVars == <<redis_special_limits, redis_except_users, mut>>

geoVars == <<running, now, CACHE, IP_CACHE, cache_file, VALID_IPS, INVALID_IPS, task,
             resolved>>

adminVars == <<bot, pending, batch, response>>

clientVars == <<initialized, last_update_timestamp, last_refresh_time>>

vars == <<ACTIVE_USERS, all_users_log, pc, idx, config_data, disabled_count,
          disable_calls, purge_failed, delay, config, service_ips, clientVars, syncVars,
          geoVars, adminVars>>

(***************************************************************************)
(* The aggregator: a dict kept as a sequence of [name, ip] records in      *)
(* insertion order; the list UserType.ip is kept as its multiset, ip ->    *)
(* number of occurrences (no code reads the order of the list).            *)
(***************************************************************************)
Keys(d) == {d[i].name : i \in DOMAIN d}

IndexOf(d, u) == CHOOSE i \in DOMAIN d : d[i].name = u

Get(d, u) == d[IndexOf(d, u)].ip

Size(cnt) == Cardinality({x \in IPs : cnt[x] > 0})

\* the number of times ip stands in the list of email
CountIn(d, email, ip) == IF email \in Keys(d) THEN Get(d, email)[ip] ELSE 0

AppendObservation(d, email, ip) ==
    IF email \in Keys(d)
    THEN [i \in DOMAIN d |->
            IF d[i].name = email THEN [d[i] EXCEPT !.ip[ip] = @ + 1] ELSE d[i]]
    ELSE Append(d, [name |-> email, ip |-> [x \in IPs |-> IF x = ip THEN 1 ELSE 0]])

(***************************************************************************)
(* RedisClient.initialize: returns at once on an initialized client;       *)
(* otherwise the client object is built and marked initialized (building   *)
(* it does not connect), then the key last_update_timestamp is created if  *)
(* it does not exist.  ok: the Redis server answers.                       *)
(***************************************************************************)
initialize_AlwaysStamp(ok) ==
    /\ initialized' = TRUE
    /\ last_update_timestamp' = IF ok THEN <<now>> ELSE last_update_timestamp
    /\ UNCHANGED last_refresh_time

initialize(ok) ==
    /\ initialized' = TRUE
    /\ last_update_timestamp' =
         IF ~initialized /\ ok /\ last_update_timestamp = Absent
         THEN <<now>> ELSE last_update_timestamp
    /\ UNCHANGED last_refresh_time

(***************************************************************************)
(* The Redis hash service_ips; a service with no entry has no key.         *)
(***************************************************************************)
get_service_ips(s, u) == IF u \in DOMAIN s THEN s[u] ELSE {}

add_ip_to_service(s, u, ip) ==
    [x \in DOMAIN s \cup {u} |-> IF x = u THEN get_service_ips(s, u) \cup {ip} ELSE s[x]]

\* a removal that writes the set back also when it has become empty
remove_ip_from_service_KeepKey(s, u, ip) ==
    IF u \notin DOMAIN s \/ ip \notin get_service_ips(s, u)
    THEN s
    ELSE [s EXCEPT ![u] = @ \ {ip}]

remove_ip_from_service(s, u, ip) ==
    IF u \notin DOMAIN s \/ ip \notin get_service_ips(s, u)
    THEN s
    ELSE IF s[u] \ {ip} # {}
         THEN [s EXCEPT ![u] = @ \ {ip}]
         ELSE [x \in DOMAIN s \ {u} |-> s[x]]

\* a purge that stops after the first removal
RemoveAll_FirstOnly(s, u, ips) ==
    IF ips = {} THEN s
    ELSE remove_ip_from_service(s, u, CHOOSE x \in ips : TRUE)

\* check_users_usage lines 129-131: remove every listed IP of the service
RECURSIVE RemoveAll(_, _, _)
RemoveAll(s, u, ips) ==
    IF ips = {} THEN s
    ELSE LET ip == CHOOSE x \in ips : TRUE
         IN  RemoveAll(remove_ip_from_service(s, u, ip), u, ips \ {ip})

(***************************************************************************)
(* check_ip_used: filter every user's list in place, then sort the report  *)
(* dict by the size of the list, largest first (sorted is stable).         *)
(***************************************************************************)
FilterSeen_AtLeast(cnt) == [x \in IPs |-> IF cnt[x] >= SeenThreshold THEN 1 ELSE 0]

FilterSeen(cnt) == [x \in IPs |-> IF cnt[x] > SeenThreshold THEN 1 ELSE 0]

check_ip_used(d) == [i \in DOMAIN d |-> [d[i] EXCEPT !.ip = FilterSeen(@)]]

Before(d, i, j) ==
    \/ Size(d[i].ip) > Size(d[j].ip)
    \/ Size(d[i].ip) = Size(d[j].ip) /\ i < j

SortedKeys(d) ==
    [k \in DOMAIN d |->
        d[CHOOSE i \in DOMAIN d :
            Cardinality({j \in DOMAIN d : Before(d, j, i)}) = k - 1].name]

(***************************************************************************)
(* check_users_usage: limits and the decision for one user.  user_ip is    *)
(* the list object shared with ACTIVE_USERS, read when the user is reached.*)
(***************************************************************************)
user_limit_number_General(cfg, u) == cfg.GENERAL_LIMIT[1]

user_limit_number(cfg, u) ==
    IF u \in DOMAIN cfg.SPECIAL_LIMIT THEN cfg.SPECIAL_LIMIT[u] ELSE cfg.GENERAL_LIMIT[1]

OverLimit_NoExemption(cfg, d, u) == Size(Get(d, u)) > user_limit_number(cfg, u)

OverLimit(cfg, d, u) ==
    /\ u \notin cfg.EXCEPT_USERS
    /\ Size(Get(d, u)) > user_limit_number(cfg, u)

\* the first position at or after k of a user that is to be disabled, 0 if none
NextViolator(cfg, d, log, k) ==
    LET hits == {j \in DOMAIN log : j >= k /\ OverLimit(cfg, d, log[j])}
    IN  IF hits = {} THEN 0 ELSE CHOOSE j \in hits : \A h \in hits : j <= h

FallbackDelay == 30

\* run_check_users_usage lines 165-170, reached when check_users_usage returns:
\* the interval is read from config.json and slept; without a CHECK_INTERVAL
\* line 167 raises and the error is reported first
\* a scheduler that sleeps the interval the cycle read when it started
AfterCycle_IntervalOfCycleStart ==
    IF config_data.CHECK_INTERVAL # Absent
    THEN /\ pc' = "sleep"
         /\ delay' = config_data.CHECK_INTERVAL[1]
    ELSE /\ pc' = "monitor_error"
         /\ UNCHANGED delay

AfterCycle ==
    IF config.CHECK_INTERVAL # Absent
    THEN /\ pc' = "sleep"
         /\ delay' = config.CHECK_INTERVAL[1]
    ELSE /\ pc' = "monitor_error"
         /\ UNCHANGED delay

\* a loop that takes the exemptions and special limits from the Redis replicas
ContinueLoop_FromReplica(k) ==
    LET j == NextViolator([config_data EXCEPT !.SPECIAL_LIMIT = redis_special_limits,
                                              !.EXCEPT_USERS = redis_except_users],
                          ACTIVE_USERS, all_users_log, k)
    IN  IF j # 0
        THEN /\ idx' = j
             /\ pc' = "warn"
             /\ UNCHANGED <<ACTIVE_USERS, all_users_log, delay>>
        ELSE /\ ACTIVE_USERS' = <<>>
             /\ all_users_log' = <<>>
             /\ idx' = 0
             /\ AfterCycle

\* a loop that looks the limits up in config.json as it is when a user is reached
ContinueLoop_LiveConfig(k) ==
    LET j == NextViolator(config, ACTIVE_USERS, all_users_log, k)
    IN  IF j # 0
        THEN /\ idx' = j
             /\ pc' = "warn"
             /\ UNCHANGED <<ACTIVE_USERS, all_users_log, delay>>
        ELSE /\ ACTIVE_USERS' = <<>>
             /\ all_users_log' = <<>>
             /\ idx' = 0
             /\ AfterCycle

\* the for loop from position k up to its next await, or to the end of the cycle
ContinueLoop(k) ==
    LET j == NextViolator(config_data, ACTIVE_USERS, all_users_log, k)
    IN  IF j # 0
        THEN /\ idx' = j
             /\ pc' = "warn"
             /\ UNCHANGED <<ACTIVE_USERS, all_users_log, delay>>
        ELSE /\ ACTIVE_USERS' = <<>>
             /\ all_users_log' = <<>>
             /\ idx' = 0
             /\ AfterCycle

\* utils.read_config.read_config: the content of config.json, from the file
\* alone (no Redis replica is consulted)
read_config == config

\* line 84 and check_ip_used up to its first send_logs
StartCycle ==
    /\ pc = "sleep"
    /\ config_data' = read_config
    /\ ACTIVE_USERS' = check_ip_used(ACTIVE_USERS)
    /\ all_users_log' = SortedKeys(ACTIVE_USERS')
    /\ disable_calls' = {}
    /\ disabled_count' = 0
    /\ purge_failed' = FALSE
    /\ delay' = 0
    /\ idx' = 0
    /\ pc' = "report"
    /\ UNCHANGED <<config, service_ips, clientVars>>
    /\ UNCHANGED <<syncVars, geoVars, adminVars>>

\* the report has been sent; lines 91-99, then the loop
ReportSent ==
    /\ pc = "report"
    /\ IF config_data.GENERAL_LIMIT = Absent
       THEN /\ pc' = "error_report"
            /\ UNCHANGED <<ACTIVE_USERS, all_users_log, idx, delay>>
       ELSE ContinueLoop(1)
    /\ UNCHANGED <<config_data, disabled_count, disable_calls, purge_failed, config,
                   service_ips, clientVars>>
    /\ UNCHANGED <<syncVars, geoVars, adminVars>>

\* the warning has been sent; disable_user is called
WarningSent ==
    /\ pc = "warn"
    /\ disable_calls' = disable_calls \cup {all_users_log[idx]}
    /\ pc' = "disable"
    /\ purge_failed' = FALSE
    /\ UNCHANGED <<ACTIVE_USERS, all_users_log, idx, config_data, disabled_count,
                   delay, config, service_ips, clientVars>>
    /\ UNCHANGED <<syncVars, geoVars, adminVars>>

DisableReturns_Abort(ok, kept) ==
    /\ pc = "disable"
    /\ LET u == all_users_log[idx]
       IN  IF ok
           THEN /\ kept \subseteq get_service_ips(service_ips, u)
                /\ disabled_count' = disabled_count + 1
                /\ service_ips' =
                     RemoveAll(service_ips, u, get_service_ips(service_ips, u) \ kept)
                /\ initialize(kept = {} \/ kept # get_service_ips(service_ips, u))
                /\ purge_failed' = (kept # {})
                /\ ContinueLoop(idx + 1)
           ELSE /\ kept = {}
                /\ pc' = "error_report"
                /\ UNCHANGED <<disabled_count, service_ips, clientVars, purge_failed, ACTIVE_USERS,
                               all_users_log, idx, delay>>
    /\ UNCHANGED <<config_data, disable_calls, config>>
    /\ UNCHANGED <<syncVars, geoVars, adminVars>>

\* a cycle that purges the replica whatever disable_user answered
DisableReturns_PurgeAlways(ok, kept) ==
    /\ pc = "disable"
    /\ LET u == all_users_log[idx]
       IN  /\ kept \subseteq get_service_ips(service_ips, u)
           /\ IF ok THEN TRUE ELSE kept = {}
           /\ disabled_count' = IF ok THEN disabled_count + 1 ELSE disabled_count
           /\ service_ips' =
                RemoveAll(service_ips, u, get_service_ips(service_ips, u) \ kept)
           /\ initialize(kept = {} \/ kept # get_service_ips(service_ips, u))
           /\ purge_failed' = (kept # {})
    /\ ContinueLoop(idx + 1)
    /\ UNCHANGED <<config_data, disable_calls, config>>
    /\ UNCHANGED <<syncVars, geoVars, adminVars>>

\* disable_user returns (ok) or raises ValueError; after success the replica
\* entries are removed one by one, each removal may fail: kept stay behind
DisableReturns(ok, kept) ==
    /\ pc = "disable"
    /\ LET u == all_users_log[idx]
       IN  IF ok
           THEN /\ kept \subseteq get_service_ips(service_ips, u)
                /\ disabled_count' = disabled_count + 1
                /\ service_ips' =
                     RemoveAll(service_ips, u, get_service_ips(service_ips, u) \ kept)
                /\ initialize(kept = {} \/ kept # get_service_ips(service_ips, u))
                /\ purge_failed' = (kept # {})
           ELSE /\ kept = {}
                /\ UNCHANGED <<disabled_count, service_ips, clientVars, purge_failed>>
    /\ ContinueLoop(idx + 1)
    /\ UNCHANGED <<config_data, disable_calls, config>>
    /\ UNCHANGED <<syncVars, geoVars, adminVars>>

\* a scheduler that goes to the fallback sleep after a failed cycle
ErrorReported_Fallback ==
    /\ pc = "error_report"
    /\ idx' = 0
    /\ pc' = "sleep"
    /\ delay' = FallbackDelay
    /\ UNCHANGED <<ACTIVE_USERS, all_users_log, config_data, disabled_count,
                   disable_calls, purge_failed, config, service_ips, clientVars>>
    /\ UNCHANGED <<syncVars, geoVars, adminVars>>

\* line 146-148: the error has been reported, check_users_usage returns
ErrorReported ==
    /\ pc = "error_report"
    /\ idx' = 0
    /\ AfterCycle
    /\ UNCHANGED <<ACTIVE_USERS, all_users_log, config_data, disabled_count,
                   disable_calls, purge_failed, config, service_ips, clientVars>>
    /\ UNCHANGED <<syncVars, geoVars, adminVars>>

\* a scheduler whose error handler does not sleep
MonitorErrorReported_NoSleep ==
    /\ pc = "monitor_error"
    /\ pc' = "sleep"
    /\ delay' = 0
    /\ UNCHANGED <<ACTIVE_USERS, all_users_log, idx, config_data, disabled_count,
                   disable_calls, purge_failed, config, service_ips, clientVars>>
    /\ UNCHANGED <<syncVars, geoVars, adminVars>>

\* run_check_users_usage lines 175-179: the error of the monitoring cycle has
\* been reported, the fallback sleep begins
MonitorErrorReported ==
    /\ pc = "monitor_error"
    /\ pc' = "sleep"
    /\ delay' = FallbackDelay
    /\ UNCHANGED <<ACTIVE_USERS, all_users_log, idx, config_data, disabled_count,
                   disable_calls, purge_failed, config, service_ips, clientVars>>
    /\ UNCHANGED <<syncVars, geoVars, adminVars>>

\* the scheduler task is cancelled while it sleeps or waits for disable_user:
\* CancelledError reaches line 172 and the loop is left (send_logs swallows a
\* cancellation that arrives while it sends, send_message.py lines 90-92)
Cancel ==
    /\ pc \in {"sleep", "disable"}
    /\ pc' = "cancelled"
    /\ delay' = 0
    /\ UNCHANGED <<ACTIVE_USERS, all_users_log, idx, config_data, disabled_count,
                   disable_calls, purge_failed, config, service_ips, clientVars>>
    /\ UNCHANGED <<syncVars, geoVars, adminVars>>

(***************************************************************************)
(* main, v2iplimit.py lines 93-121: the configuration is read with the     *)
(* check of the required elements until the read succeeds; after a failed  *)
(* read two messages go to the admins and main sleeps 60 seconds.  The     *)
(* ingestion tasks and the scheduler loop are started after the loop, by   *)
(* the same coroutine.                                                     *)
(***************************************************************************)
RetryDelay == 60

StartupPositions == {"load_config", "config_error", "config_notice", "retry_wait"}

\* the tasks of lines 156-185 exist
ingestion_started == pc \notin StartupPositions

\* read_config(check_required_elements=True) raises ValueError
required_missing == config.PANEL_DOMAIN = Absent

StartupStep(from, to, d) ==
    /\ pc = from
    /\ pc' = to
    /\ delay' = d
    /\ UNCHANGED <<ACTIVE_USERS, all_users_log, idx, config_data, disabled_count,
                   disable_calls, purge_failed, config, service_ips>>
    /\ UNCHANGED <<syncVars, geoVars, adminVars>>

\* lines 117-138 and 156-185: after the loop main connects the Redis client,
\* creates the ingestion tasks and enters the scheduler loop
LoadConfig_NoCheck ==
    /\ StartupStep("load_config", "sleep", 0)
    /\ \E ok \in BOOLEAN : initialize(ok)

LoadConfig ==
    IF required_missing
    THEN /\ StartupStep("load_config", "config_error", 0)
         /\ UNCHANGED clientVars
    ELSE /\ StartupStep("load_config", "sleep", 0)
         /\ \E ok \in BOOLEAN : initialize(ok)

\* send_logs returns, sent or not: the error text, then the instructions
ConfigErrorSent ==
    /\ StartupStep("config_error", "config_notice", 0)
    /\ UNCHANGED clientVars

ConfigNoticeSent ==
    /\ StartupStep("config_notice", "retry_wait", RetryDelay)
    /\ UNCHANGED clientVars

RetryWaitOver ==
    /\ StartupStep("retry_wait", "load_config", 0)
    /\ UNCHANGED clientVars

(***************************************************************************)
(* parse_logs, lines 305-324: an accepted observation is appended to the   *)
(* aggregator and pushed to the replica; a Redis error is logged only.     *)
(***************************************************************************)
StoreObservation(email, ip, redis_ok) ==
    /\ ACTIVE_USERS' = AppendObservation(ACTIVE_USERS, email, ip)
    /\ service_ips' = IF redis_ok THEN add_ip_to_service(service_ips, email, ip)
                      ELSE service_ips
    /\ initialize(redis_ok)

Ingest(email, ip, redis_ok) ==
    /\ ingestion_started
    /\ IF email \in Keys(ACTIVE_USERS) THEN Get(ACTIVE_USERS, email)[ip] < MaxCount ELSE TRUE
    /\ StoreObservation(email, ip, redis_ok)
    /\ UNCHANGED <<all_users_log, pc, idx, config_data, disabled_count, disable_calls,
                   purge_failed, delay, config>>
    /\ UNCHANGED <<syncVars, geoVars, adminVars>>

\* the batches handed to parse_logs: up to MaxBatch accepted lines, each with
\* the outcome of its push to Redis
Lines == [email : {"alice"}, ip : IPs, redis_ok : BOOLEAN]

Batches == UNION {[1..n -> Lines] : n \in 1..MaxBatch}

\* a parser that a Redis error makes leave the batch
RECURSIVE ParseLines_AbortOnRedisError(_, _, _)
ParseLines_AbortOnRedisError(d, s, lines) ==
    IF lines = <<>>
    THEN [agg |-> d, ips |-> s]
    ELSE LET l == Head(lines)
         IN  IF l.redis_ok
             THEN ParseLines_AbortOnRedisError(AppendObservation(d, l.email, l.ip),
                                               add_ip_to_service(s, l.email, l.ip),
                                               Tail(lines))
             ELSE [agg |-> AppendObservation(d, l.email, l.ip), ips |-> s]

\* the for loop of parse_logs over the lines of one batch, lines 305-324 for
\* each: the aggregator and the replica after the last line
RECURSIVE ParseLines(_, _, _)
ParseLines(d, s, lines) ==
    IF lines = <<>>
    THEN [agg |-> d, ips |-> s]
    ELSE LET l == Head(lines)
         IN  ParseLines(AppendObservation(d, l.email, l.ip),
                        IF l.redis_ok THEN add_ip_to_service(s, l.email, l.ip) ELSE s,
                        Tail(lines))

Occurrences(lines, email, ip) ==
    Cardinality({i \in DOMAIN lines : lines[i].email = email /\ lines[i].ip = ip})

\* parse_logs on one batch when no country is configured: no call suspends,
\* the batch is parsed in one piece
parse_logs(lines) ==
    /\ ingestion_started
    /\ \A l \in Lines :
          (IF l.email \in Keys(ACTIVE_USERS) THEN Get(ACTIVE_USERS, l.email)[l.ip] ELSE 0)
              + Occurrences(lines, l.email, l.ip) <= MaxCount
    /\ ACTIVE_USERS' = ParseLines(ACTIVE_USERS, service_ips, lines).agg
    /\ service_ips' = ParseLines(ACTIVE_USERS, service_ips, lines).ips
    /\ initialize(lines[1].redis_ok)
    /\ batch' = lines
    /\ UNCHANGED <<all_users_log, pc, idx, config_data, disabled_count, disable_calls,
                   purge_failed, delay, config>>
    /\ UNCHANGED <<syncVars, geoVars, bot, pending, response>>

(***************************************************************************)
(* parse_logs on raw log lines, lines 242-324.  A line is what the tests   *)
(* and patterns of the loop see of it: the word "accepted", the mark       *)
(* "BLOCK]", the address the IP patterns find (NoIp: none) and the token   *)
(* after "email:" as <<numeric id, name>> (<<>>: none).                    *)
(***************************************************************************)
NoIp == "none"

PrivateIPs == {"10.0.0.1", "127.0.0.1"}

MalformedIPs == {"999.1.1.1"}

INVALID_EMAILS ==
    {"API]", "Found", "(normal)", "timeout", "EOF", "address", "INFO", "request"}

\* is_valid_ip, lines 208-224
is_valid_ip(ip) == ip \notin MalformedIPs /\ ip \notin PrivateIPs

\* remove_id_from_username, lines 55-64: "12.alice" becomes "alice"
remove_id_from_username(username) == username[2]

GoodLine(ip, email) == [accepted |-> TRUE, blocked |-> FALSE, ip |-> ip, email |-> email]

LogLines ==
    {GoodLine(ip, <<"", "alice">>) : ip \in IPs \cup PrivateIPs \cup MalformedIPs \cup {"1.1.1.1"}}
    \cup {GoodLine("ip1", e) : e \in {<<"12", "alice">>, <<"7", "INFO">>, <<>>}}
    \cup {GoodLine(NoIp, <<"", "alice">>)}
    \cup {[GoodLine("ip1", <<"", "alice">>) EXCEPT !.accepted = FALSE],
          [GoodLine("ip1", <<"", "alice">>) EXCEPT !.blocked = TRUE]}

LogBatches == UNION {[1..n -> LogLines] : n \in 1..MaxBatch}

\* the tests of the loop body that end with continue before the IP is looked at
Skipped(l) == ~l.accepted \/ l.blocked \/ l.ip = NoIp

\* lines 296-302: no user name, or a name of the stoplist
NoUser(l) == l.email = <<>> \/ remove_id_from_username(l.email) \in INVALID_EMAILS

\* a parser that leaves the batch at the first line it cannot use
RECURSIVE ParseLog_StopAtUnusableLine(_, _)
ParseLog_StopAtUnusableLine(st, lines) ==
    IF lines = <<>>
    THEN st
    ELSE LET l == Head(lines)
         IN  IF Skipped(l)
             THEN st
             ELSE IF l.ip \notin st.valid /\ ~(is_valid_ip(l.ip) /\ l.ip \notin st.invalid)
             THEN ParseLog_StopAtUnusableLine(st, Tail(lines))
             ELSE IF NoUser(l)
             THEN [st EXCEPT !.valid = @ \cup {l.ip}]
             ELSE ParseLog_StopAtUnusableLine(
                      [agg |-> AppendObservation(st.agg, remove_id_from_username(l.email), l.ip),
                       ips |-> add_ip_to_service(st.ips, remove_id_from_username(l.email), l.ip),
                       valid |-> st.valid \cup {l.ip},
                       invalid |-> st.invalid],
                      Tail(lines))

\* the for loop, lines 251-324, with the location filter off and Redis up:
\* st holds ACTIVE_USERS, the replica, VALID_IPS and INVALID_IPS
RECURSIVE ParseLog(_, _)
ParseLog(st, lines) ==
    IF lines = <<>>
    THEN st
    ELSE LET l == Head(lines)
         IN  IF Skipped(l)
             THEN ParseLog(st, Tail(lines))
             ELSE IF l.ip \notin st.valid /\ ~(is_valid_ip(l.ip) /\ l.ip \notin st.invalid)
             THEN ParseLog(st, Tail(lines))
             ELSE IF NoUser(l)
             THEN ParseLog([st EXCEPT !.valid = @ \cup {l.ip}], Tail(lines))
             ELSE ParseLog(
                      [agg |-> AppendObservation(st.agg, remove_id_from_username(l.email), l.ip),
                       ips |-> add_ip_to_service(st.ips, remove_id_from_username(l.email), l.ip),
                       valid |-> st.valid \cup {l.ip},
                       invalid |-> st.invalid],
                      Tail(lines))

\* the state the loop starts with: lines 242-244 add the INVALID_IPS of
\* config.json to the module's set
BatchStart ==
    [agg |-> ACTIVE_USERS, ips |-> service_ips, valid |-> VALID_IPS,
     invalid |-> INVALID_IPS \cup config.INVALID_IPS]

\* parse_logs on one batch of raw lines; with the location filter off no call
\* suspends and the batch is parsed in one piece
parse_raw_logs(lines) ==
    /\ ingestion_started
    /\ running
    /\ ~(config.ENABLE_IP_LOCATION_CHECK /\ config.IP_LOCATION # "None")
    /\ \A x \in IPs : CountIn(ACTIVE_USERS, "alice", x) + Len(lines) <= MaxCount
    /\ LET end == ParseLog(BatchStart, lines)
       IN  /\ ACTIVE_USERS' = end.agg
           /\ service_ips' = end.ips
           /\ VALID_IPS' = end.valid
           /\ INVALID_IPS' = end.invalid
    /\ initialize(TRUE)
    /\ batch' = lines
    /\ UNCHANGED <<all_users_log, pc, idx, config_data, disabled_count, disable_calls,
                   purge_failed, delay, config>>
    /\ UNCHANGED <<running, now, CACHE, IP_CACHE, cache_file, task, resolved>>
    /\ UNCHANGED <<syncVars, bot, pending, response>>

\* the operator edits the INVALID_IPS of config.json, which line 242 reads
\* again for every batch
edit_invalid_ips(ips) ==
    /\ mut.stage # "config"
    /\ config' = [config EXCEPT !.INVALID_IPS = ips]
    /\ UNCHANGED <<ACTIVE_USERS, all_users_log, pc, idx, config_data, disabled_count,
                   disable_calls, purge_failed, delay, service_ips, clientVars>>
    /\ UNCHANGED <<syncVars, geoVars, adminVars>>

\* telegram_bot: get_general_limit_number_handler / save_general_limit
SetGeneralLimit(n) ==
    /\ n >= 1
    /\ config.GENERAL_LIMIT # <<n>>
    /\ config' = [config EXCEPT !.GENERAL_LIMIT = <<n>>]
    /\ UNCHANGED <<ACTIVE_USERS, all_users_log, pc, idx, config_data, disabled_count,
                   disable_calls, purge_failed, delay, service_ips, clientVars>>
    /\ UNCHANGED <<syncVars, geoVars, adminVars>>

(***************************************************************************)
(* The replicas of the special limits and of the exemption list in Redis   *)
(* (utils/redis_utils.py) and the per-item mutators of the synchronizer    *)
(* (utils/special_limits_sync.py, utils/except_users_sync.py).  A mutator  *)
(* makes two writes to two stores, so it takes two steps: the write to     *)
(* Redis, then the write of config.json.  get_special_limits and           *)
(* get_except_users answer {} and [] when Redis fails.                     *)
(***************************************************************************)
MapPut(m, u, n) == [x \in DOMAIN m \cup {u} |-> IF x = u THEN n ELSE m[x]]

MapDel(m, u) == [x \in DOMAIN m \ {u} |-> m[x]]

get_special_limits(get_ok) == IF get_ok THEN redis_special_limits ELSE <<>>

get_except_users(get_ok) == IF get_ok THEN redis_except_users ELSE {}

\* pending names the fact ("special", "except_add", "except_remove"), the user
\* and the limit of a console edit written to config.json and not pushed; a
\* later synchronization of the same fact ends the record
NoPending == [fact |-> "none", user |-> "", limit |-> 0]

\* route, HTTP status and body of an answer of the API: the field limits of
\* /api/special-limits, the field users of /api/except-users
\* redis_ok and seq are history: every Redis operation of the request
\* succeeded; the parity of the number of requests answered
NoResponse ==
    [route |-> "none", status |-> 0, limits |-> <<>>, users |-> {}, redis_ok |-> FALSE,
     seq |-> 0]

Synced(facts) == IF pending.fact \in facts THEN NoPending ELSE pending

\* mut.before and mut.durable are history: the special-limit map in Redis when
\* the mutator was called, and the outcome of its write_config call
NoMut ==
    [op |-> "none", stage |-> "idle", result |-> FALSE, durable |-> "none",
     before |-> <<>>]

Called(op, stage) ==
    [op |-> op, stage |-> stage, result |-> FALSE, durable |-> "none",
     before |-> IF op \in {"add_special_limit", "remove_special_limit"}
                THEN redis_special_limits ELSE <<>>]

enfVars ==
    <<ACTIVE_USERS, all_users_log, pc, idx, config_data, disabled_count, disable_calls,
      purge_failed, delay, service_ips, clientVars>>

\* special_limits_sync.add_special_limit up to line 74
add_special_limit(username, limit, get_ok, set_ok) ==
    /\ mut.stage # "config"
    /\ IF set_ok
       THEN /\ redis_special_limits' = MapPut(get_special_limits(get_ok), username, limit)
            /\ mut' = Called("add_special_limit", "config")
       ELSE /\ UNCHANGED redis_special_limits
            /\ mut' = Called("add_special_limit", "done")
    /\ UNCHANGED <<enfVars, config, redis_except_users>>
    /\ UNCHANGED <<geoVars, adminVars>>

\* special_limits_sync.remove_special_limit up to line 106
remove_special_limit(username, get_ok, set_ok) ==
    /\ mut.stage # "config"
    /\ IF username \in DOMAIN get_special_limits(get_ok) /\ set_ok
       THEN /\ redis_special_limits' = MapDel(get_special_limits(get_ok), username)
            /\ mut' = Called("remove_special_limit", "config")
       ELSE /\ UNCHANGED redis_special_limits
            /\ mut' = Called("remove_special_limit", "done")
    /\ UNCHANGED <<enfVars, config, redis_except_users>>
    /\ UNCHANGED <<geoVars, adminVars>>

\* the rest of both mutators: sync_special_limits_to_config and the return
sync_special_limits_to_config(get_ok, write_ok) ==
    /\ mut.stage = "config"
    /\ mut.op \in {"add_special_limit", "remove_special_limit"}
    /\ IF write_ok
       THEN /\ config' = [config EXCEPT !.SPECIAL_LIMIT = get_special_limits(get_ok)]
            /\ mut' = [mut EXCEPT !.stage = "done", !.result = TRUE, !.durable = "ok"]
       ELSE /\ UNCHANGED config
            /\ mut' = [mut EXCEPT !.stage = "done", !.result = FALSE, !.durable = "failed"]
    /\ UNCHANGED <<enfVars, redis_special_limits, redis_except_users>>
    /\ pending' = IF write_ok THEN Synced({"special"}) ELSE pending
    /\ UNCHANGED <<geoVars, bot, batch, response>>

\* except_users_sync.add_except_user up to line 79
add_except_user(username, get_ok, set_ok) ==
    /\ mut.stage # "config"
    /\ IF username \in get_except_users(get_ok)
       THEN /\ UNCHANGED redis_except_users
            /\ mut' = Called("add_except_user", "config")
       ELSE IF set_ok
            THEN /\ redis_except_users' = get_except_users(get_ok) \cup {username}
                 /\ mut' = Called("add_except_user", "config")
            ELSE /\ UNCHANGED redis_except_users
                 /\ mut' = Called("add_except_user", "done")
    /\ UNCHANGED <<enfVars, config, redis_special_limits>>
    /\ UNCHANGED <<geoVars, adminVars>>

\* except_users_sync.remove_except_user up to line 111
remove_except_user(username, get_ok, set_ok) ==
    /\ mut.stage # "config"
    /\ IF username \in get_except_users(get_ok) /\ set_ok
       THEN /\ redis_except_users' = get_except_users(get_ok) \ {username}
            /\ mut' = Called("remove_except_user", "config")
       ELSE /\ UNCHANGED redis_except_users
            /\ mut' = Called("remove_except_user", "done")
    /\ UNCHANGED <<enfVars, config, redis_special_limits>>
    /\ UNCHANGED <<geoVars, adminVars>>

\* the rest of both mutators: sync_except_users_to_config and the return
sync_except_users_to_config(get_ok, write_ok) ==
    /\ mut.stage = "config"
    /\ mut.op \in {"add_except_user", "remove_except_user"}
    /\ IF write_ok
       THEN /\ config' = [config EXCEPT !.EXCEPT_USERS = get_except_users(get_ok)]
            /\ mut' = [mut EXCEPT !.stage = "done", !.result = TRUE, !.durable = "ok"]
       ELSE /\ UNCHANGED config
            /\ mut' = [mut EXCEPT !.stage = "done", !.result = FALSE, !.durable = "failed"]
    /\ UNCHANGED <<enfVars, redis_special_limits, redis_except_users>>
    /\ pending' = IF write_ok THEN Synced({"except_add", "except_remove"}) ELSE pending
    /\ UNCHANGED <<geoVars, bot, batch, response>>

\* the full pushes of config.json to Redis
sync_special_limits_to_redis(set_ok) ==
    /\ mut.stage # "config"
    /\ redis_special_limits' = IF set_ok THEN config.SPECIAL_LIMIT ELSE redis_special_limits
    /\ UNCHANGED <<enfVars, config, redis_except_users, mut>>
    /\ pending' = IF set_ok THEN Synced({"special"}) ELSE pending
    /\ UNCHANGED <<geoVars, bot, batch, response>>

sync_except_users_to_redis(set_ok) ==
    /\ mut.stage # "config"
    /\ redis_except_users' = IF set_ok THEN config.EXCEPT_USERS ELSE redis_except_users
    /\ UNCHANGED <<enfVars, config, redis_special_limits, mut>>
    /\ pending' = IF set_ok THEN Synced({"except_add", "except_remove"}) ELSE pending
    /\ UNCHANGED <<geoVars, bot, batch, response>>

(***************************************************************************)
(* The read API, api/main.py lines 144-165 and 232-253: the fact is pushed *)
(* from config.json to Redis, the outcome of the push is not looked at,    *)
(* and the answer is what Redis holds; a failed read of Redis gives the    *)
(* empty map or list.                                                      *)
(***************************************************************************)
get_all_special_limits_NoSync(set_ok, get_ok) ==
    /\ mut.stage # "config"
    /\ response' = [route |-> "special-limits", status |-> 200,
                    limits |-> get_special_limits(get_ok), users |-> {},
                    redis_ok |-> set_ok /\ get_ok, seq |-> 1 - response.seq]
    /\ UNCHANGED <<enfVars, config, syncVars, geoVars, bot, pending, batch>>

get_all_special_limits(set_ok, get_ok) ==
    /\ mut.stage # "config"
    /\ redis_special_limits' = IF set_ok THEN config.SPECIAL_LIMIT ELSE redis_special_limits
    /\ pending' = IF set_ok THEN Synced({"special"}) ELSE pending
    /\ response' = [route |-> "special-limits", status |-> 200,
                    limits |-> IF get_ok THEN redis_special_limits' ELSE <<>>,
                    users |-> {},
                    redis_ok |-> set_ok /\ get_ok, seq |-> 1 - response.seq]
    /\ UNCHANGED <<enfVars, config, redis_except_users, mut, geoVars, bot, batch>>

get_all_except_users(set_ok, get_ok) ==
    /\ mut.stage # "config"
    /\ redis_except_users' = IF set_ok THEN config.EXCEPT_USERS ELSE redis_except_users
    /\ pending' = IF set_ok THEN Synced({"except_add", "except_remove"}) ELSE pending
    /\ response' = [route |-> "except-users", status |-> 200,
                    limits |-> <<>>,
                    users |-> IF get_ok THEN redis_except_users' ELSE {},
                    redis_ok |-> set_ok /\ get_ok, seq |-> 1 - response.seq]
    /\ UNCHANGED <<enfVars, config, redis_special_limits, mut, geoVars, bot, batch>>

(***************************************************************************)
(* Geolocation: check_ip with its two cache tiers, the location filter of  *)
(* parse_logs, the cache file and the life of the process                  *)
(* (utils/parse_logs.py).  check_ip runs without suspension up to its      *)
(* first HTTP request, and from the last response through the caller's     *)
(* handling of the result.  The field "source" of a cache entry is never   *)
(* read and is left out.                                                   *)
(***************************************************************************)
Fresh(entry, t) == t - entry.timestamp < CACHE_TTL

clean_cache(cache, t) ==
    [x \in {y \in DOMAIN cache : Fresh(cache[y], t)} |-> cache[x]]

\* check_ip, lines 129-145: the cached answer, NoCountry when there is none
Lookup_MemoryOnly(ip) ==
    IF ip \in DOMAIN CACHE THEN CACHE[ip] ELSE NoCountry

Lookup(ip) ==
    IF ip \in DOMAIN CACHE
    THEN CACHE[ip]
    ELSE IF ip \in DOMAIN IP_CACHE /\ Fresh(IP_CACHE[ip], now)
         THEN IP_CACHE[ip].country_code
         ELSE NoCountry

\* seq is the parity of the number of calls of check_ip the coroutine has made
\* ip and country of a coroutine at rest: its last call of check_ip and the answer
IdleTask(ip, country, seq) ==
    [stage |-> "idle", caller |-> "none", email |-> "", ip |-> ip, left |-> 0,
     current_time |-> 0, country |-> country, seq |-> seq]

ObsCount(email, ip) ==
    IF email \in Keys(ACTIVE_USERS) THEN Get(ACTIVE_USERS, email)[ip] ELSE 0

InFlight == {t \in Tasks : task[t].stage = "http" /\ task[t].caller = "parse_logs"}

\* parse_logs, lines 276-324 for an IP that is accepted
Accept(email, ip, redis_ok) ==
    /\ VALID_IPS' = VALID_IPS \cup {ip}
    /\ StoreObservation(email, ip, redis_ok)
    /\ UNCHANGED INVALID_IPS

\* what the caller does with the value check_ip returns: parse_logs lines
\* 274-285 and on; any other caller keeps the value
Deliver_FailClosed(t, caller, email, ip, country, seq, redis_ok) ==
    IF caller = "check_ip"
    THEN /\ task' = [task EXCEPT ![t] = [IdleTask(ip, country, seq) EXCEPT !.stage = "returned"]]
         /\ UNCHANGED <<VALID_IPS, INVALID_IPS, ACTIVE_USERS, service_ips, clientVars>>
    ELSE /\ task' = [task EXCEPT ![t] = IdleTask(ip, country, seq)]
         /\ IF country = config.IP_LOCATION
            THEN Accept(email, ip, redis_ok)
            ELSE /\ INVALID_IPS' = INVALID_IPS \cup {ip}
                 /\ UNCHANGED <<VALID_IPS, ACTIVE_USERS, service_ips, clientVars>>

Deliver(t, caller, email, ip, country, seq, redis_ok) ==
    IF caller = "check_ip"
    THEN /\ task' = [task EXCEPT ![t] = [IdleTask(ip, country, seq) EXCEPT !.stage = "returned"]]
         /\ UNCHANGED <<VALID_IPS, INVALID_IPS, ACTIVE_USERS, service_ips, clientVars>>
    ELSE /\ task' = [task EXCEPT ![t] = IdleTask(ip, country, seq)]
         /\ IF country # NoCountry /\ country # config.IP_LOCATION
            THEN /\ INVALID_IPS' = INVALID_IPS \cup {ip}
                 /\ UNCHANGED <<VALID_IPS, ACTIVE_USERS, service_ips, clientVars>>
            ELSE Accept(email, ip, redis_ok)

\* check_ip from its call to its first await: a cached answer is returned at
\* once, otherwise the first endpoint is queried
Resolve(t, caller, email, ip, redis_ok) ==
    IF Lookup(ip) # NoCountry
    THEN /\ CACHE' = MapPut(CACHE, ip, Lookup(ip))
         /\ Deliver(t, caller, email, ip, Lookup(ip), 1 - task[t].seq, redis_ok)
    ELSE /\ task' = [task EXCEPT ![t] =
                        [stage |-> "http", caller |-> caller, email |-> email, ip |-> ip,
                         left |-> NumEndpoints, current_time |-> now,
                         country |-> NoCountry, seq |-> 1 - task[t].seq]]
         /\ UNCHANGED <<CACHE, VALID_IPS, INVALID_IPS, ACTIVE_USERS, service_ips, clientVars>>

restVars ==
    <<all_users_log, pc, idx, config_data, disabled_count, disable_calls, purge_failed,
      delay, config, syncVars,
      adminVars>>

\* a parser that asks for the location of every new IP, whatever config.json says
parse_line_AlwaysResolve(t, email, ip, redis_ok) ==
    /\ running
    /\ task[t].stage = "idle"
    /\ ObsCount(email, ip) + Cardinality(InFlight) < MaxCount
    /\ IF ip \in VALID_IPS
       THEN /\ task' = [task EXCEPT ![t] = IdleTask("", NoCountry, task[t].seq)]
            /\ Accept(email, ip, redis_ok)
            /\ UNCHANGED CACHE
       ELSE IF ip \in INVALID_IPS
       THEN /\ task' = [task EXCEPT ![t] = IdleTask("", NoCountry, task[t].seq)]
            /\ UNCHANGED <<CACHE, VALID_IPS, INVALID_IPS, ACTIVE_USERS, service_ips, clientVars>>
       ELSE Resolve(t, "parse_logs", email, ip, redis_ok)
    /\ UNCHANGED <<running, now, IP_CACHE, cache_file, resolved, restVars>>

\* parse_logs, lines 251-324 for one accepted line with a public IP and a user
parse_line(t, email, ip, redis_ok) ==
    /\ running
    /\ task[t].stage = "idle"
    /\ ObsCount(email, ip) + Cardinality(InFlight) < MaxCount
    /\ IF ip \in VALID_IPS
       THEN /\ task' = [task EXCEPT ![t] = IdleTask("", NoCountry, task[t].seq)]
            /\ Accept(email, ip, redis_ok)
            /\ UNCHANGED CACHE
       ELSE IF ip \in INVALID_IPS
       THEN /\ task' = [task EXCEPT ![t] = IdleTask("", NoCountry, task[t].seq)]
            /\ UNCHANGED <<CACHE, VALID_IPS, INVALID_IPS, ACTIVE_USERS, service_ips, clientVars>>
       ELSE IF config.ENABLE_IP_LOCATION_CHECK /\ config.IP_LOCATION # "None"
       THEN Resolve(t, "parse_logs", email, ip, redis_ok)
       ELSE /\ task' = [task EXCEPT ![t] = IdleTask("", NoCountry, task[t].seq)]
            /\ Accept(email, ip, redis_ok)
            /\ UNCHANGED CACHE
    /\ UNCHANGED <<running, now, IP_CACHE, cache_file, resolved, restVars>>

\* check_ip called by any other caller, which keeps the value until release
call_check_ip(t, ip) ==
    /\ running
    /\ task[t].stage = "idle"
    /\ Resolve(t, "check_ip", "", ip, TRUE)
    /\ UNCHANGED <<running, now, IP_CACHE, cache_file, resolved, restVars>>

release(t) ==
    /\ running
    /\ task[t].stage = "returned"
    /\ task' = [task EXCEPT ![t] = IdleTask("", NoCountry, task[t].seq)]
    /\ UNCHANGED <<running, now, CACHE, IP_CACHE, cache_file, VALID_IPS, INVALID_IPS,
                   resolved, ACTIVE_USERS, service_ips, clientVars, restVars>>

Succeeded(r, ip, country, t) ==
    [r EXCEPT ![ip] =
        [first |-> IF @.first = NoCountry THEN country ELSE @.first,
         first_at |-> IF @.first = NoCountry THEN t ELSE @.first_at,
         last |-> country,
         last_at |-> t]]

\* a lookup that gives up at the first endpoint that fails
http_response_NoFallback(t, r, redis_ok) ==
    /\ running
    /\ task[t].stage = "http"
    /\ IF r \in Codes
       THEN /\ CACHE' = MapPut(CACHE, task[t].ip, r)
            /\ IP_CACHE' = MapPut(IP_CACHE, task[t].ip,
                                  [country_code |-> r, timestamp |-> task[t].current_time])
            /\ cache_file' = IF Cardinality(DOMAIN IP_CACHE') % FlushEvery = 0
                             THEN clean_cache(IP_CACHE', now)
                             ELSE cache_file
            /\ resolved' = Succeeded(resolved, task[t].ip, r, now)
            /\ Deliver(t, task[t].caller, task[t].email, task[t].ip, r, task[t].seq, redis_ok)
       ELSE /\ Deliver(t, task[t].caller, task[t].email, task[t].ip, NoCountry, task[t].seq,
                       redis_ok)
            /\ UNCHANGED <<CACHE, IP_CACHE, cache_file, resolved>>
    /\ UNCHANGED <<running, now, restVars>>

\* a lookup that keeps the persistent entry of an address that has one
http_response_KeepPersistent(t, r, redis_ok) ==
    /\ running
    /\ task[t].stage = "http"
    /\ IF r \in Codes
       THEN /\ CACHE' = MapPut(CACHE, task[t].ip, r)
            /\ IP_CACHE' = IF task[t].ip \in DOMAIN IP_CACHE
                           THEN IP_CACHE
                           ELSE MapPut(IP_CACHE, task[t].ip,
                                       [country_code |-> r,
                                        timestamp |-> task[t].current_time])
            /\ cache_file' = IF Cardinality(DOMAIN IP_CACHE') % FlushEvery = 0
                             THEN clean_cache(IP_CACHE', now)
                             ELSE cache_file
            /\ resolved' = Succeeded(resolved, task[t].ip, r, now)
            /\ Deliver(t, task[t].caller, task[t].email, task[t].ip, r, task[t].seq, redis_ok)
       ELSE IF task[t].left > 1
       THEN /\ task' = [task EXCEPT ![t].left = @ - 1]
            /\ UNCHANGED <<CACHE, IP_CACHE, cache_file, resolved, VALID_IPS, INVALID_IPS,
                           ACTIVE_USERS, service_ips, clientVars>>
       ELSE /\ Deliver(t, task[t].caller, task[t].email, task[t].ip, NoCountry, task[t].seq,
                       redis_ok)
            /\ UNCHANGED <<CACHE, IP_CACHE, cache_file, resolved>>
    /\ UNCHANGED <<running, now, restVars>>

\* check_ip, lines 160-200: the endpoint queried answers r, a country code or
\* "fail" (error, status other than 200, no country in the answer)
http_response(t, r, redis_ok) ==
    /\ running
    /\ task[t].stage = "http"
    /\ IF r \in Codes
       THEN /\ CACHE' = MapPut(CACHE, task[t].ip, r)
            /\ IP_CACHE' = MapPut(IP_CACHE, task[t].ip,
                                  [country_code |-> r, timestamp |-> task[t].current_time])
            /\ cache_file' = IF Cardinality(DOMAIN IP_CACHE') % FlushEvery = 0
                             THEN clean_cache(IP_CACHE', now)
                             ELSE cache_file
            /\ resolved' = Succeeded(resolved, task[t].ip, r, now)
            /\ Deliver(t, task[t].caller, task[t].email, task[t].ip, r, task[t].seq, redis_ok)
       ELSE IF task[t].left > 1
       THEN /\ task' = [task EXCEPT ![t].left = @ - 1]
            /\ UNCHANGED <<CACHE, IP_CACHE, cache_file, resolved, VALID_IPS, INVALID_IPS,
                           ACTIVE_USERS, service_ips, clientVars>>
       ELSE /\ Deliver(t, task[t].caller, task[t].email, task[t].ip, NoCountry, task[t].seq,
                       redis_ok)
            /\ UNCHANGED <<CACHE, IP_CACHE, cache_file, resolved>>
    /\ UNCHANGED <<running, now, restVars>>

\* API_ENDPOINTS, lines 47-52, by their position in the dictionary
Endpoints == 1..NumEndpoints

\* random.shuffle(endpoints), line 149: the orders it can produce
Shuffles ==
    {o \in [Endpoints -> Endpoints] : \A i, j \in Endpoints : o[i] = o[j] => i = j}

\* what each endpoint answers to the requests of one call
Answers == [Endpoints -> Codes \cup {"fail"}]

\* check_ip on a cache miss, lines 147-151: the list of endpoints is shuffled
\* into order and the first one is queried
check_ip_miss(t, ip, order, answers) ==
    /\ running
    /\ task[t].stage = "idle"
    /\ Lookup(ip) = NoCountry
    /\ task' = [task EXCEPT ![t] =
                   [stage |-> "http", caller |-> "check_ip", email |-> "", ip |-> ip,
                    left |-> NumEndpoints, current_time |-> now,
                    country |-> NoCountry, seq |-> 1 - task[t].seq,
                    endpoints |-> order, answers |-> answers]]
    /\ UNCHANGED <<CACHE, VALID_IPS, INVALID_IPS, ACTIVE_USERS, service_ips, clientVars>>
    /\ UNCHANGED <<running, now, IP_CACHE, cache_file, resolved, restVars>>

\* check_ip answered from CACHE or IP_CACHE, lines 128-144
check_ip_hit(t, ip) ==
    /\ Lookup(ip) # NoCountry
    /\ call_check_ip(t, ip)

\* the endpoint the loop of line 151 is at
Queried(tk) == tk.endpoints[NumEndpoints - tk.left + 1]

\* lines 151-197: the endpoint queried answers
endpoint_answers(t) ==
    /\ task[t].stage = "http"
    /\ http_response(t, task[t].answers[Queried(task[t])], TRUE)

Tick ==
    /\ now < MaxDays * Day
    /\ \A t \in Tasks : task[t].stage # "http"
    /\ now' = now + Day
    /\ UNCHANGED <<running, CACHE, IP_CACHE, cache_file, VALID_IPS, INVALID_IPS, task,
                   resolved, ACTIVE_USERS, service_ips, clientVars, restVars>>

\* the process exits: the atexit handler saves the cache, the module state is lost
Exit ==
    /\ running
    /\ running' = FALSE
    /\ cache_file' = clean_cache(IP_CACHE, now)
    /\ CACHE' = <<>>
    /\ IP_CACHE' = <<>>
    /\ VALID_IPS' = {}
    /\ INVALID_IPS' = {"1.1.1.1", "8.8.8.8"}
    /\ task' = [t \in Tasks |-> IdleTask("", NoCountry, 0)]
    /\ ACTIVE_USERS' = <<>>
    /\ initialized' = FALSE
    /\ last_refresh_time' = 0
    /\ UNCHANGED <<now, resolved, service_ips, last_update_timestamp, restVars>>

\* the process starts: line 111; main connects the Redis client (v2iplimit.py
\* lines 131-138, an error is reported and the program continues)
Start ==
    /\ ~running
    /\ running' = TRUE
    /\ IP_CACHE' = cache_file
    /\ \E ok \in BOOLEAN : initialize(ok)
    /\ UNCHANGED <<now, CACHE, cache_file, VALID_IPS, INVALID_IPS, task, resolved,
                   ACTIVE_USERS, service_ips, restVars>>

NoResolution ==
    [first |-> NoCountry, first_at |-> 0, last |-> NoCountry, last_at |-> 0]

(***************************************************************************)
(* The admin console of the Telegram bot: conversations that edit          *)
(* config.json.  bot.state is the state of the ConversationHandler,        *)
(* bot.kind and bot.n the last message received, bot.reply the answer.     *)
(* Writes of config.json are taken to succeed.                             *)
(***************************************************************************)
MinInterval == 10

RecommendedInterval == 60

\* the numbers an admin types as an interval
IntervalInputs == {5, 9, 10, 30}

NoChat == [state |-> "END", kind |-> "none", n |-> 0, reply |-> "none"]

\* telegram_bot.utils.save_check_interval: the new content of config.json
save_check_interval(data, interval) == [data EXCEPT !.CHECK_INTERVAL = <<interval>>]

\* telegram_bot.main.get_check_interval: the command /set_check_interval
get_check_interval ==
    /\ bot.state = "END"
    /\ bot' = [state |-> "GET_CHECK_INTERVAL", kind |-> "command", n |-> 0,
               reply |-> "prompt"]
    /\ UNCHANGED <<enfVars, config, syncVars, geoVars, pending, batch, response>>

\* the handler without the lower bound on the interval
get_check_interval_handler_NoMinimum(kind, n) ==
    /\ bot.state = "GET_CHECK_INTERVAL"
    /\ IF kind = "cancel"
       THEN /\ bot' = [state |-> "END", kind |-> kind, n |-> 0, reply |-> "cancelled"]
            /\ UNCHANGED config
       ELSE IF kind = "invalid"
       THEN /\ bot' = [state |-> "END", kind |-> kind, n |-> 0, reply |-> "invalid"]
            /\ UNCHANGED config
       ELSE /\ config' = save_check_interval(config, n)
            /\ bot' = [state |-> "END", kind |-> kind, n |-> n, reply |-> "saved"]
    /\ UNCHANGED <<enfVars, syncVars, geoVars, pending, batch, response>>

\* telegram_bot.main.get_check_interval_handler: the message that answers the
\* prompt is /cancel, a text int() rejects, or the number n
get_check_interval_handler(kind, n) ==
    /\ bot.state = "GET_CHECK_INTERVAL"
    /\ IF kind = "cancel"
       THEN /\ bot' = [state |-> "END", kind |-> kind, n |-> 0, reply |-> "cancelled"]
            /\ UNCHANGED config
       ELSE IF kind = "invalid"
       THEN /\ bot' = [state |-> "END", kind |-> kind, n |-> 0, reply |-> "invalid"]
            /\ UNCHANGED config
       ELSE IF n < MinInterval
       THEN /\ bot' = [state |-> "GET_CHECK_INTERVAL", kind |-> kind, n |-> n,
                       reply |-> "too_short"]
            /\ UNCHANGED config
       ELSE /\ config' = save_check_interval(config, n)
            /\ bot' = [state |-> "END", kind |-> kind, n |-> n, reply |-> "saved"]
    /\ UNCHANGED <<enfVars, syncVars, geoVars, pending, batch, response>>

\* telegram_bot.utils.handel_special_limit: config.json is written, then
\* pushed whole to Redis; a failed push is logged only
handel_special_limit(username, limit, set_ok) ==
    /\ mut.stage # "config"
    /\ config' = [config EXCEPT !.SPECIAL_LIMIT = MapPut(@, username, limit)]
    /\ redis_special_limits' =
         IF set_ok THEN config'.SPECIAL_LIMIT ELSE redis_special_limits
    /\ pending' = IF set_ok THEN Synced({"special"})
                  ELSE [fact |-> "special", user |-> username, limit |-> limit]
    /\ UNCHANGED <<enfVars, redis_except_users, mut, geoVars, bot, batch, response>>

\* telegram_bot.utils.add_base_information, lines 209-235: get_token raises
\* when the panel refuses the credentials, and nothing is written
add_base_information(token_ok) ==
    /\ mut.stage # "config"
    /\ config' = IF token_ok THEN [config EXCEPT !.PANEL_DOMAIN = <<"panel">>] ELSE config
    /\ UNCHANGED <<enfVars, syncVars, geoVars, adminVars>>

\* telegram_bot.utils.add_except_user
bot_add_except_user(except_user, set_ok) ==
    /\ mut.stage # "config"
    /\ except_user \notin config.EXCEPT_USERS
    /\ config' = [config EXCEPT !.EXCEPT_USERS = @ \cup {except_user}]
    /\ redis_except_users' = IF set_ok THEN config'.EXCEPT_USERS ELSE redis_except_users
    /\ pending' = IF set_ok THEN Synced({"except_add", "except_remove"})
                  ELSE [fact |-> "except_add", user |-> except_user, limit |-> 0]
    /\ UNCHANGED <<enfVars, redis_special_limits, mut, geoVars, bot, batch, response>>

\* telegram_bot.utils.remove_except_user_from_config
remove_except_user_from_config(user, set_ok) ==
    /\ mut.stage # "config"
    /\ user \in config.EXCEPT_USERS
    /\ config' = [config EXCEPT !.EXCEPT_USERS = @ \ {user}]
    /\ redis_except_users' = IF set_ok THEN config'.EXCEPT_USERS ELSE redis_except_users
    /\ pending' = IF set_ok THEN Synced({"except_add", "except_remove"})
                  ELSE [fact |-> "except_remove", user |-> user, limit |-> 0]
    /\ UNCHANGED <<enfVars, redis_special_limits, mut, geoVars, bot, batch, response>>

\* the module state of parse_logs when the process starts with no cache file
GeoAtStart ==
    /\ running = TRUE
    /\ now = 0
    /\ CACHE = <<>>
    /\ IP_CACHE = <<>>
    /\ cache_file = <<>>
    /\ VALID_IPS = {}
    /\ INVALID_IPS = {"1.1.1.1", "8.8.8.8"}
    /\ task = [t \in Tasks |-> IdleTask("", NoCountry, 0)]
    /\ resolved = [x \in GeoIPs |-> NoResolution]

SpecialLimitMaps ==
    UNION {[D -> SpecialVals] : D \in SUBSET Users}

\* the exemption lists the enforcement cycle is run with
ExemptSets == {{}, {"alice"}}

Init ==
    /\ ACTIVE_USERS = <<>>
    /\ all_users_log = <<>>
    /\ pc = "sleep"
    /\ idx = 0
    /\ disable_calls = {}
    /\ disabled_count = 0
    /\ purge_failed = FALSE
    /\ delay = 0
    /\ service_ips = <<>>
    /\ initialized = TRUE
    /\ last_update_timestamp = <<0>>
    /\ last_refresh_time = 0
    /\ redis_special_limits = <<>>
    /\ redis_except_users = {}
    /\ mut = NoMut
    /\ GeoAtStart
    /\ bot = NoChat
    /\ pending = NoPending
    /\ batch = <<>>
    /\ response = NoResponse
    /\ config \in [GENERAL_LIMIT : {Absent} \cup {<<n>> : n \in GeneralVals},
                   SPECIAL_LIMIT : SpecialLimitMaps,
                   EXCEPT_USERS : ExemptSets,
                   ENABLE_IP_LOCATION_CHECK : {TRUE},
                   IP_LOCATION : {"None"},
                   CHECK_INTERVAL : {<<RecommendedInterval>>},
                   PANEL_DOMAIN : {<<"panel">>},
                   INVALID_IPS : {{}}]
    /\ config_data = config

Next ==
    \/ StartCycle
    \/ ReportSent
    \/ WarningSent
    \/ \E ok \in BOOLEAN, kept \in SUBSET IPs : DisableReturns(ok, kept)
    \/ ErrorReported
    \/ \E o \in ObsPairs, r \in BOOLEAN : Ingest(o[1], o[2], r)
    \/ \E n \in GeneralVals : SetGeneralLimit(n)

Spec == Init /\ [][Next]_vars

\* the enforcement cycle with Redis replicas that differ from config.json
AliceLimitMaps == {<<>>} \cup [{"alice"} -> SpecialVals]

InitReplica ==
    /\ ACTIVE_USERS = <<>>
    /\ all_users_log = <<>>
    /\ pc = "sleep"
    /\ idx = 0
    /\ disable_calls = {}
    /\ disabled_count = 0
    /\ purge_failed = FALSE
    /\ delay = 0
    /\ service_ips = <<>>
    /\ initialized = TRUE
    /\ last_update_timestamp = <<0>>
    /\ last_refresh_time = 0
    /\ config \in [GENERAL_LIMIT : {<<1>>},
                   SPECIAL_LIMIT : AliceLimitMaps,
                   EXCEPT_USERS : ExemptSets,
                   ENABLE_IP_LOCATION_CHECK : {TRUE},
                   IP_LOCATION : {"None"},
                   CHECK_INTERVAL : {<<RecommendedInterval>>},
                   PANEL_DOMAIN : {<<"panel">>},
                   INVALID_IPS : {{}}]
    /\ config_data = config
    /\ redis_special_limits \in AliceLimitMaps
    /\ redis_except_users \in ExemptSets
    /\ mut = NoMut
    /\ GeoAtStart
    /\ bot = NoChat
    /\ pending = NoPending
    /\ batch = <<>>
    /\ response = NoResponse

NextReplica ==
    \/ StartCycle
    \/ ReportSent
    \/ WarningSent
    \/ \E ok \in BOOLEAN, kept \in SUBSET IPs : DisableReturns(ok, kept)
    \/ \E o \in ObsPairs, r \in BOOLEAN : Ingest(o[1], o[2], r)

SpecReplica == InitReplica /\ [][NextReplica]_vars

\* the enforcement cycle with an admin who edits config.json at any time
InitEdit ==
    /\ ACTIVE_USERS = <<>>
    /\ all_users_log = <<>>
    /\ pc = "sleep"
    /\ idx = 0
    /\ disable_calls = {}
    /\ disabled_count = 0
    /\ purge_failed = FALSE
    /\ delay = 0
    /\ service_ips = <<>>
    /\ initialized = TRUE
    /\ last_update_timestamp = <<0>>
    /\ last_refresh_time = 0
    /\ config \in [GENERAL_LIMIT : {<<n>> : n \in GeneralVals},
                   SPECIAL_LIMIT : {<<>>},
                   EXCEPT_USERS : ExemptSets,
                   ENABLE_IP_LOCATION_CHECK : {TRUE},
                   IP_LOCATION : {"None"},
                   CHECK_INTERVAL : {<<RecommendedInterval>>},
                   PANEL_DOMAIN : {<<"panel">>},
                   INVALID_IPS : {{}}]
    /\ config_data = config
    /\ redis_special_limits = config.SPECIAL_LIMIT
    /\ redis_except_users = config.EXCEPT_USERS
    /\ mut = NoMut
    /\ GeoAtStart
    /\ bot = NoChat
    /\ pending = NoPending
    /\ batch = <<>>
    /\ response = NoResponse

NextEdit ==
    \/ StartCycle
    \/ ReportSent
    \/ WarningSent
    \/ \E ok \in BOOLEAN, kept \in SUBSET IPs : DisableReturns(ok, kept)
    \/ \E o \in ObsPairs, r \in BOOLEAN : Ingest(o[1], o[2], r)
    \/ \E n \in GeneralVals : SetGeneralLimit(n)
    \/ \E n \in SpecialVals : handel_special_limit("alice", n, TRUE)
    \/ bot_add_except_user("alice", TRUE)
    \/ remove_except_user_from_config("alice", TRUE)

SpecEdit == InitEdit /\ [][NextEdit]_vars

\* the scheduler task run_check_users_usage with ingestion, an admin who sets
\* the interval, and cancellation; config.json may lack GENERAL_LIMIT (the
\* cycle fails) or CHECK_INTERVAL (the interval cannot be read)
InitSched ==
    /\ ACTIVE_USERS = <<>>
    /\ all_users_log = <<>>
    /\ pc = "sleep"
    /\ idx = 0
    /\ disable_calls = {}
    /\ disabled_count = 0
    /\ purge_failed = FALSE
    /\ delay = 0
    /\ service_ips = <<>>
    /\ initialized = TRUE
    /\ last_update_timestamp = <<0>>
    /\ last_refresh_time = 0
    /\ config \in [GENERAL_LIMIT : {Absent, <<1>>},
                   SPECIAL_LIMIT : {<<>>},
                   EXCEPT_USERS : {{}},
                   ENABLE_IP_LOCATION_CHECK : {TRUE},
                   IP_LOCATION : {"None"},
                   CHECK_INTERVAL : {Absent, <<RecommendedInterval>>},
                   PANEL_DOMAIN : {<<"panel">>},
                   INVALID_IPS : {{}}]
    /\ config_data = config
    /\ redis_special_limits = <<>>
    /\ redis_except_users = {}
    /\ mut = NoMut
    /\ GeoAtStart
    /\ bot = NoChat
    /\ pending = NoPending
    /\ batch = <<>>
    /\ response = NoResponse

\* the steps of the scheduler task: a sleep that ends, a send_logs or a
\* disable_user call that returns
SchedulerStep ==
    \/ StartCycle
    \/ ReportSent
    \/ WarningSent
    \/ \E ok \in BOOLEAN, kept \in SUBSET IPs : DisableReturns(ok, kept)
    \/ ErrorReported
    \/ MonitorErrorReported

NextSched ==
    \/ SchedulerStep
    \/ Cancel
    \/ \E o \in ObsPairs : Ingest(o[1], o[2], TRUE)
    \/ get_check_interval
    \/ \E n \in IntervalInputs : get_check_interval_handler("number", n)

\* every sleep ends and every call the scheduler awaits returns or raises:
\* send_logs gives up after 3 attempts per admin, the panel call has a timeout
SpecSched == InitSched /\ [][NextSched]_vars /\ WF_vars(SchedulerStep)

\* ingestion on its own, batch by batch, with a Redis that can fail at any
\* push; a cycle that never fails empties the aggregator in between
InitParse ==
    /\ ACTIVE_USERS = <<>>
    /\ all_users_log = <<>>
    /\ pc = "sleep"
    /\ idx = 0
    /\ disable_calls = {}
    /\ disabled_count = 0
    /\ purge_failed = FALSE
    /\ delay = 0
    /\ service_ips = <<>>
    /\ initialized = TRUE
    /\ last_update_timestamp = <<0>>
    /\ last_refresh_time = 0
    /\ config \in [GENERAL_LIMIT : {<<n>> : n \in GeneralVals},
                   SPECIAL_LIMIT : {<<>>},
                   EXCEPT_USERS : {{}},
                   ENABLE_IP_LOCATION_CHECK : {TRUE},
                   IP_LOCATION : {"None"},
                   CHECK_INTERVAL : {<<RecommendedInterval>>},
                   PANEL_DOMAIN : {<<"panel">>},
                   INVALID_IPS : {{}}]
    /\ config_data = config
    /\ redis_special_limits = <<>>
    /\ redis_except_users = {}
    /\ mut = NoMut
    /\ GeoAtStart
    /\ bot = NoChat
    /\ pending = NoPending
    /\ batch = <<>>
    /\ response = NoResponse

NextParse ==
    \/ \E lines \in Batches : parse_logs(lines)
    \/ StartCycle
    \/ ReportSent
    \/ WarningSent
    \/ \E ok \in BOOLEAN, kept \in SUBSET IPs : DisableReturns(ok, kept)

SpecParse == InitParse /\ [][NextParse]_vars

(***************************************************************************)
(* The service-IP replica and its timestamp.  api/main.py, lines 102-141:  *)
(* GET /api/connected-ips clears the replica when CHECK_INTERVAL seconds   *)
(* have passed since the last clear.  ok: the Redis server answers.        *)
(***************************************************************************)
DefaultApiInterval == 240

\* RedisClient.clear_all_data, lines 373-396: an error is logged only
clear_all_data_KeepStamp(ok) ==
    /\ service_ips' = IF ok THEN <<>> ELSE service_ips
    /\ UNCHANGED last_update_timestamp

clear_all_data(ok) ==
    /\ service_ips' = IF ok THEN <<>> ELSE service_ips
    /\ last_update_timestamp' = IF ok THEN <<now>> ELSE last_update_timestamp

\* lines 118-119: int(config.get("CHECK_INTERVAL", 240))
check_interval ==
    IF config.CHECK_INTERVAL # Absent THEN config.CHECK_INTERVAL[1] ELSE DefaultApiInterval

\* line 123: current_time - last_refresh_time >= check_interval
time_to_clear == now - last_refresh_time >= check_interval

get_connected_ips(ok) ==
    /\ running
    /\ LET \* initialize raises on a client that is not initialized: HTTP 500
           raised == ~initialized /\ ~ok
       IN  IF ~raised /\ time_to_clear
           THEN /\ clear_all_data(ok)
                /\ initialized' = TRUE
                /\ last_refresh_time' = now
           ELSE /\ initialize(ok)
                /\ UNCHANGED service_ips
    /\ UNCHANGED <<ACTIVE_USERS, restVars, geoVars>>

\* a fresh Redis server, the process is about to start
InitRedis ==
    /\ ACTIVE_USERS = <<>>
    /\ all_users_log = <<>>
    /\ pc = "sleep"
    /\ idx = 0
    /\ disable_calls = {}
    /\ disabled_count = 0
    /\ purge_failed = FALSE
    /\ delay = 0
    /\ service_ips = <<>>
    /\ initialized = FALSE
    /\ last_update_timestamp = Absent
    /\ last_refresh_time = 0
    /\ config \in [GENERAL_LIMIT : {<<1>>},
                   SPECIAL_LIMIT : {<<>>},
                   EXCEPT_USERS : {{}},
                   ENABLE_IP_LOCATION_CHECK : {TRUE},
                   IP_LOCATION : {"None"},
                   CHECK_INTERVAL : {Absent, <<RecommendedInterval>>},
                   PANEL_DOMAIN : {<<"panel">>},
                   INVALID_IPS : {{}}]
    /\ config_data = config
    /\ redis_special_limits = <<>>
    /\ redis_except_users = {}
    /\ mut = NoMut
    /\ running = FALSE
    /\ now = Day
    /\ CACHE = <<>>
    /\ IP_CACHE = <<>>
    /\ cache_file = <<>>
    /\ VALID_IPS = {}
    /\ INVALID_IPS = {"1.1.1.1", "8.8.8.8"}
    /\ task = [t \in Tasks |-> IdleTask("", NoCountry, 0)]
    /\ resolved = [x \in GeoIPs |-> NoResolution]
    /\ bot = NoChat
    /\ pending = NoPending
    /\ batch = <<>>
    /\ response = NoResponse

NextRedis ==
    \/ Start
    \/ Tick
    \/ \E ok \in BOOLEAN : get_connected_ips(ok)
    \/ \E ip \in IPs, ok \in BOOLEAN : running /\ Ingest("alice", ip, ok)
    \/ running /\ StartCycle
    \/ ReportSent
    \/ WarningSent
    \/ \E ok \in BOOLEAN, kept \in SUBSET IPs : DisableReturns(ok, kept)
    \/ MonitorErrorReported

SpecRedis == InitRedis /\ [][NextRedis]_vars

(***************************************************************************)
(* GET /api/connected-ips over restarts of the process.  The Redis server  *)
(* has kept the data of an earlier run, whose last bulk clear was at time  *)
(* 0: last_update_timestamp exists and is always the time of the last      *)
(* clear that succeeded.                                                   *)
(***************************************************************************)
InitClear ==
    /\ ACTIVE_USERS = <<>>
    /\ all_users_log = <<>>
    /\ pc = "sleep"
    /\ idx = 0
    /\ disable_calls = {}
    /\ disabled_count = 0
    /\ purge_failed = FALSE
    /\ delay = 0
    /\ service_ips = <<>>
    /\ initialized = FALSE
    /\ last_update_timestamp = <<0>>
    /\ last_refresh_time = 0
    /\ config \in [GENERAL_LIMIT : {<<1>>},
                   SPECIAL_LIMIT : {<<>>},
                   EXCEPT_USERS : {{}},
                   ENABLE_IP_LOCATION_CHECK : {TRUE},
                   IP_LOCATION : {"None"},
                   CHECK_INTERVAL : {Absent, <<RecommendedInterval>>},
                   PANEL_DOMAIN : {<<"panel">>},
                   INVALID_IPS : {{}}]
    /\ config_data = config
    /\ redis_special_limits = <<>>
    /\ redis_except_users = {}
    /\ mut = NoMut
    /\ running = FALSE
    /\ now = Day
    /\ CACHE = <<>>
    /\ IP_CACHE = <<>>
    /\ cache_file = <<>>
    /\ VALID_IPS = {}
    /\ INVALID_IPS = {"1.1.1.1", "8.8.8.8"}
    /\ task = [t \in Tasks |-> IdleTask("", NoCountry, 0)]
    /\ resolved = [x \in GeoIPs |-> NoResolution]
    /\ bot = NoChat
    /\ pending = NoPending
    /\ batch = <<>>
    /\ response = NoResponse

NextClear ==
    \/ Start
    \/ Exit
    \/ Tick
    \/ \E ok \in BOOLEAN : get_connected_ips(ok)
    \/ \E ip \in IPs, ok \in BOOLEAN : running /\ Ingest("alice", ip, ok)

SpecClear == InitClear /\ [][NextClear]_vars

(***************************************************************************)
(* Startup: main is at the configuration loop, the panel credentials may   *)
(* be missing from config.json; the admin can enter them with              *)
(* /create_config.  Every step of main follows an await that returns.      *)
(***************************************************************************)
InitStart ==
    /\ ACTIVE_USERS = <<>>
    /\ all_users_log = <<>>
    /\ pc = "load_config"
    /\ idx = 0
    /\ disable_calls = {}
    /\ disabled_count = 0
    /\ purge_failed = FALSE
    /\ delay = 0
    /\ service_ips = <<>>
    /\ initialized = FALSE
    /\ last_update_timestamp = <<0>>
    /\ last_refresh_time = 0
    /\ config \in [GENERAL_LIMIT : {<<1>>},
                   SPECIAL_LIMIT : {<<>>},
                   EXCEPT_USERS : {{}},
                   ENABLE_IP_LOCATION_CHECK : {TRUE},
                   IP_LOCATION : {"None"},
                   CHECK_INTERVAL : {<<RecommendedInterval>>},
                   PANEL_DOMAIN : {Absent, <<"panel">>},
                   INVALID_IPS : {{}}]
    /\ config_data = config
    /\ redis_special_limits = <<>>
    /\ redis_except_users = {}
    /\ mut = NoMut
    /\ GeoAtStart
    /\ bot = NoChat
    /\ pending = NoPending
    /\ batch = <<>>
    /\ response = NoResponse

MainStep ==
    \/ LoadConfig
    \/ ConfigErrorSent
    \/ ConfigNoticeSent
    \/ RetryWaitOver
    \/ StartCycle
    \/ ReportSent
    \/ WarningSent
    \/ \E ok \in BOOLEAN, kept \in SUBSET IPs : DisableReturns(ok, kept)

NextStart ==
    \/ MainStep
    \/ \E token_ok \in BOOLEAN : add_base_information(token_ok)
    \/ \E o \in ObsPairs, ok \in BOOLEAN : Ingest(o[1], o[2], ok)

SpecStart == InitStart /\ [][NextStart]_vars /\ WF_vars(MainStep)

(***************************************************************************)
(* The two stores after a console edit whose push to Redis failed: the     *)
(* admin edits alice on the console; bob is edited on the console or       *)
(* through the API mutators; either fact can be pushed again in full.      *)
(***************************************************************************)
InitReconcile ==
    /\ ACTIVE_USERS = <<>>
    /\ all_users_log = <<>>
    /\ pc = "sleep"
    /\ idx = 0
    /\ disable_calls = {}
    /\ disabled_count = 0
    /\ purge_failed = FALSE
    /\ delay = 0
    /\ service_ips = <<>>
    /\ initialized = TRUE
    /\ last_update_timestamp = <<0>>
    /\ last_refresh_time = 0
    /\ config \in [GENERAL_LIMIT : {<<1>>},
                   SPECIAL_LIMIT : {<<>>},
                   EXCEPT_USERS : {{}},
                   ENABLE_IP_LOCATION_CHECK : {TRUE},
                   IP_LOCATION : {"None"},
                   CHECK_INTERVAL : {<<RecommendedInterval>>},
                   PANEL_DOMAIN : {<<"panel">>},
                   INVALID_IPS : {{}}]
    /\ config_data = config
    /\ redis_special_limits = config.SPECIAL_LIMIT
    /\ redis_except_users = config.EXCEPT_USERS
    /\ mut = NoMut
    /\ GeoAtStart
    /\ bot = NoChat
    /\ pending = NoPending
    /\ batch = <<>>
    /\ response = NoResponse

NextReconcile ==
    \/ \E w \in BOOLEAN : handel_special_limit("alice", 2, w)
    \/ \E w \in BOOLEAN : bot_add_except_user("alice", w)
    \/ \E w \in BOOLEAN : handel_special_limit("bob", 1, w)
    \/ \E w \in BOOLEAN : bot_add_except_user("bob", w)
    \/ \E g \in BOOLEAN, w \in BOOLEAN : add_special_limit("bob", 1, g, w)
    \/ \E g \in BOOLEAN, w \in BOOLEAN : remove_special_limit("bob", g, w)
    \/ \E g \in BOOLEAN, w \in BOOLEAN : sync_special_limits_to_config(g, w)
    \/ \E g \in BOOLEAN, w \in BOOLEAN : add_except_user("bob", g, w)
    \/ \E g \in BOOLEAN, w \in BOOLEAN : remove_except_user("bob", g, w)
    \/ \E g \in BOOLEAN, w \in BOOLEAN : sync_except_users_to_config(g, w)
    \/ \E w \in BOOLEAN : sync_special_limits_to_redis(w)
    \/ \E w \in BOOLEAN : sync_except_users_to_redis(w)

SpecReconcile == InitReconcile /\ [][NextReconcile]_vars

(***************************************************************************)
(* The read API after a process start: Redis is empty or holds the copy of *)
(* an earlier run; the admin edits both facts on the console.              *)
(***************************************************************************)
InitRead ==
    /\ ACTIVE_USERS = <<>>
    /\ all_users_log = <<>>
    /\ pc = "sleep"
    /\ idx = 0
    /\ disable_calls = {}
    /\ disabled_count = 0
    /\ purge_failed = FALSE
    /\ delay = 0
    /\ service_ips = <<>>
    /\ initialized = TRUE
    /\ last_update_timestamp = <<0>>
    /\ last_refresh_time = 0
    /\ config \in [GENERAL_LIMIT : {<<1>>},
                   SPECIAL_LIMIT : AliceLimitMaps,
                   EXCEPT_USERS : ExemptSets,
                   ENABLE_IP_LOCATION_CHECK : {TRUE},
                   IP_LOCATION : {"None"},
                   CHECK_INTERVAL : {<<RecommendedInterval>>},
                   PANEL_DOMAIN : {<<"panel">>},
                   INVALID_IPS : {{}}]
    /\ config_data = config
    /\ redis_special_limits \in {config.SPECIAL_LIMIT, <<>>}
    /\ redis_except_users \in {config.EXCEPT_USERS, {}}
    /\ mut = NoMut
    /\ GeoAtStart
    /\ bot = NoChat
    /\ pending = NoPending
    /\ batch = <<>>
    /\ response = NoResponse

NextRead ==
    \/ \E s \in BOOLEAN, g \in BOOLEAN : get_all_special_limits(s, g)
    \/ \E s \in BOOLEAN, g \in BOOLEAN : get_all_except_users(s, g)
    \/ \E n \in SpecialVals, w \in BOOLEAN : handel_special_limit("alice", n, w)
    \/ \E w \in BOOLEAN : bot_add_except_user("alice", w)
    \/ \E w \in BOOLEAN : remove_except_user_from_config("alice", w)

SpecRead == InitRead /\ [][NextRead]_vars

(***************************************************************************)
(* Raw log batches with the location filter off; the operator may put ip2  *)
(* on the blacklist of config.json or take it off.                         *)
(***************************************************************************)
InitLog ==
    /\ ACTIVE_USERS = <<>>
    /\ all_users_log = <<>>
    /\ pc = "sleep"
    /\ idx = 0
    /\ disable_calls = {}
    /\ disabled_count = 0
    /\ purge_failed = FALSE
    /\ delay = 0
    /\ service_ips = <<>>
    /\ initialized = TRUE
    /\ last_update_timestamp = <<0>>
    /\ last_refresh_time = 0
    /\ config \in [GENERAL_LIMIT : {<<2>>},
                   SPECIAL_LIMIT : {<<>>},
                   EXCEPT_USERS : {{}},
                   ENABLE_IP_LOCATION_CHECK : {TRUE},
                   IP_LOCATION : {"None"},
                   CHECK_INTERVAL : {<<RecommendedInterval>>},
                   PANEL_DOMAIN : {<<"panel">>},
                   INVALID_IPS : {{}, {"ip2"}}]
    /\ config_data = config
    /\ redis_special_limits = <<>>
    /\ redis_except_users = {}
    /\ mut = NoMut
    /\ GeoAtStart
    /\ bot = NoChat
    /\ pending = NoPending
    /\ batch = <<>>
    /\ response = NoResponse

NextLog ==
    \/ \E lines \in LogBatches : parse_raw_logs(lines)
    \/ \E ips \in {{}, {"ip2"}} : edit_invalid_ips(ips)

SpecLog == InitLog /\ [][NextLog]_vars

(***************************************************************************)
(* The enforcement cycle with the special limit of alice set on the        *)
(* console (get_limit_number) or through the API (POST                     *)
(* /api/special-limits): config.json starts without special limits, and    *)
(* the limit is any integer an admin or a client may send.                 *)
(***************************************************************************)
LimitInputs == {-1, 0, 2}

InitLimits ==
    /\ Init
    /\ config.GENERAL_LIMIT = <<1>>
    /\ config.SPECIAL_LIMIT = <<>>
    /\ config.EXCEPT_USERS = {}

NextLimits ==
    \/ \E n \in LimitInputs, w \in BOOLEAN : handel_special_limit("alice", n, w)
    \/ \E n \in LimitInputs, g \in BOOLEAN, w \in BOOLEAN :
            add_special_limit("alice", n, g, w)
    \/ \E g \in BOOLEAN, w \in BOOLEAN : sync_special_limits_to_config(g, w)
    \/ \E ip \in IPs, r \in BOOLEAN : Ingest("alice", ip, r)
    \/ StartCycle
    \/ ReportSent
    \/ WarningSent
    \/ \E ok \in BOOLEAN, kept \in SUBSET IPs : DisableReturns(ok, kept)

SpecLimits == InitLimits /\ [][NextLimits]_vars

\* the synchronizer on its own: any config.json, Redis in sync with it or empty
InitSync ==
    /\ ACTIVE_USERS = <<>>
    /\ all_users_log = <<>>
    /\ pc = "sleep"
    /\ idx = 0
    /\ disable_calls = {}
    /\ disabled_count = 0
    /\ purge_failed = FALSE
    /\ delay = 0
    /\ service_ips = <<>>
    /\ initialized = TRUE
    /\ last_update_timestamp = <<0>>
    /\ last_refresh_time = 0
    /\ config \in [GENERAL_LIMIT : {Absent},
                   SPECIAL_LIMIT : SpecialLimitMaps,
                   EXCEPT_USERS : SUBSET Users,
                   ENABLE_IP_LOCATION_CHECK : {TRUE},
                   IP_LOCATION : {"None"},
                   CHECK_INTERVAL : {<<RecommendedInterval>>},
                   PANEL_DOMAIN : {<<"panel">>},
                   INVALID_IPS : {{}}]
    /\ config_data = config
    /\ redis_special_limits \in {config.SPECIAL_LIMIT, <<>>}
    /\ redis_except_users \in {config.EXCEPT_USERS, {}}
    /\ mut = NoMut
    /\ GeoAtStart
    /\ bot = NoChat
    /\ pending = NoPending
    /\ batch = <<>>
    /\ response = NoResponse

NextSync ==
    \/ \E u \in Users, n \in SpecialVals, g \in BOOLEAN, w \in BOOLEAN :
            add_special_limit(u, n, g, w)
    \/ \E u \in Users, g \in BOOLEAN, w \in BOOLEAN : remove_special_limit(u, g, w)
    \/ \E g \in BOOLEAN, w \in BOOLEAN : sync_special_limits_to_config(g, w)
    \/ \E u \in Users, g \in BOOLEAN, w \in BOOLEAN : add_except_user(u, g, w)
    \/ \E u \in Users, g \in BOOLEAN, w \in BOOLEAN : remove_except_user(u, g, w)
    \/ \E g \in BOOLEAN, w \in BOOLEAN : sync_except_users_to_config(g, w)
    \/ \E w \in BOOLEAN : sync_special_limits_to_redis(w)
    \/ \E w \in BOOLEAN : sync_except_users_to_redis(w)

SpecSync == InitSync /\ [][NextSync]_vars

\* ingestion with the location filter, the resolver and restarts of the process
InitGeo ==
    /\ ACTIVE_USERS = <<>>
    /\ all_users_log = <<>>
    /\ pc = "sleep"
    /\ idx = 0
    /\ disable_calls = {}
    /\ disabled_count = 0
    /\ purge_failed = FALSE
    /\ delay = 0
    /\ service_ips = <<>>
    /\ initialized = TRUE
    /\ last_update_timestamp = <<0>>
    /\ last_refresh_time = 0
    /\ config \in [GENERAL_LIMIT : {Absent},
                   SPECIAL_LIMIT : {<<>>},
                   EXCEPT_USERS : {{}},
                   ENABLE_IP_LOCATION_CHECK : BOOLEAN,
                   IP_LOCATION : {"IR", "None"},
                   CHECK_INTERVAL : {<<RecommendedInterval>>},
                   PANEL_DOMAIN : {<<"panel">>},
                   INVALID_IPS : {{}}]
    /\ config_data = config
    /\ redis_special_limits = <<>>
    /\ redis_except_users = {}
    /\ mut = NoMut
    /\ GeoAtStart
    /\ bot = NoChat
    /\ pending = NoPending
    /\ batch = <<>>
    /\ response = NoResponse

NextGeo ==
    \/ \E t \in Tasks, e \in GeoUsers, x \in GeoIPs, r \in BOOLEAN : parse_line(t, e, x, r)
    \/ \E t \in Tasks, x \in GeoIPs : call_check_ip(t, x)
    \/ \E t \in Tasks : release(t)
    \/ \E t \in Tasks, r \in Codes \cup {"fail"}, ok \in BOOLEAN : http_response(t, r, ok)
    \/ Tick
    \/ Exit
    \/ Start

SpecGeo == InitGeo /\ [][NextGeo]_vars

(***************************************************************************)
(* The flush of the geolocation cache: one caller looks up the addresses   *)
(* of FlushedIPs one after the other, an address again only when CACHE     *)
(* does not hold it; the process exits when all of them are in CACHE and   *)
(* restarts, days pass before the first lookup of a process.               *)
(* Every lookup is the only one of its batch of log lines, so that the     *)
(* save of line 333 (more than 10 lookups in one batch) is never made.     *)
(***************************************************************************)
FlushedIPs ==
    <<"a01", "a02", "a03", "a04", "a05", "a06", "a07",
      "a08", "a09", "a10", "a11", "a12", "a13", "a14",
      "a15", "a16", "a17", "a18", "a19", "a20", "a21">>

\* the first address of FlushedIPs that CACHE does not hold
IsNextUncached(i) ==
    /\ FlushedIPs[i] \notin DOMAIN CACHE
    /\ \A j \in 1..(i - 1) : FlushedIPs[j] \in DOMAIN CACHE

InitFlush ==
    /\ InitGeo
    /\ config.ENABLE_IP_LOCATION_CHECK
    /\ config.IP_LOCATION = "IR"

NextFlush ==
    \/ \E i \in DOMAIN FlushedIPs : IsNextUncached(i) /\ call_check_ip("t1", FlushedIPs[i])
    \/ \E r \in {"IR", "fail"} : http_response("t1", r, TRUE)
    \/ release("t1")
    \/ CACHE = <<>> /\ Tick
    \/ (\A i \in DOMAIN FlushedIPs : FlushedIPs[i] \in DOMAIN CACHE) /\ Exit
    \/ Start

SpecFlush == InitFlush /\ [][NextFlush]_vars

(***************************************************************************)
(* check_ip with the order of the endpoints and the answer of each one:    *)
(* lookups of ip1 by one caller, process exits and restarts, days passing. *)
(***************************************************************************)
InitLookup ==
    /\ InitGeo
    /\ ~config.ENABLE_IP_LOCATION_CHECK
    /\ config.IP_LOCATION = "IR"

NextLookup ==
    \/ \E ip \in GeoIPs, order \in Shuffles, answers \in Answers :
          check_ip_miss("t1", ip, order, answers)
    \/ endpoint_answers("t1")
    \/ \E ip \in GeoIPs : check_ip_hit("t1", ip)
    \/ release("t1")
    \/ Tick
    \/ Exit
    \/ Start

SpecLookup == InitLookup /\ [][NextLookup]_vars

\* the admin console on its own: any config.json with a valid interval
InitConsole ==
    /\ ACTIVE_USERS = <<>>
    /\ all_users_log = <<>>
    /\ pc = "sleep"
    /\ idx = 0
    /\ disable_calls = {}
    /\ disabled_count = 0
    /\ purge_failed = FALSE
    /\ delay = 0
    /\ service_ips = <<>>
    /\ initialized = TRUE
    /\ last_update_timestamp = <<0>>
    /\ last_refresh_time = 0
    /\ config \in [GENERAL_LIMIT : {Absent} \cup {<<n>> : n \in GeneralVals},
                   SPECIAL_LIMIT : {<<>>},
                   EXCEPT_USERS : {{}},
                   ENABLE_IP_LOCATION_CHECK : {TRUE},
                   IP_LOCATION : {"None"},
                   CHECK_INTERVAL : {<<MinInterval>>, <<RecommendedInterval>>},
                   PANEL_DOMAIN : {<<"panel">>},
                   INVALID_IPS : {{}}]
    /\ config_data = config
    /\ redis_special_limits = <<>>
    /\ redis_except_users = {}
    /\ mut = NoMut
    /\ GeoAtStart
    /\ bot = NoChat
    /\ pending = NoPending
    /\ batch = <<>>
    /\ response = NoResponse

NextConsole ==
    \/ get_check_interval
    \/ \E k \in {"cancel", "invalid"} : get_check_interval_handler(k, 0)
    \/ \E n \in IntervalInputs : get_check_interval_handler("number", n)
    \/ \E n \in GeneralVals : SetGeneralLimit(n)

SpecConsole == InitConsole /\ [][NextConsole]_vars

(***************************************************************************)
(* Properties of the enforcement cycle.                                    *)
(***************************************************************************)
\* a step of the for loop: from the end of an await to the next warning or to
\* the end of the cycle; it evaluates the positions LoopFrom..LoopTo
LoopStep == pc \in {"report", "disable"} /\ pc' \in {"warn", "sleep"}

LoopFrom == IF pc = "report" THEN 1 ELSE idx + 1

LoopTo == IF pc' = "warn" THEN idx' ELSE Len(all_users_log)

DistinctIps(u) == {x \in IPs : Get(ACTIVE_USERS, u)[x] >= 1}

EffectiveLimit(u) ==
    IF u \in DOMAIN config_data.SPECIAL_LIMIT
    THEN config_data.SPECIAL_LIMIT[u]
    ELSE config_data.GENERAL_LIMIT[1]

\* C1: the snapshot keeps an IP of a user iff the IP occurs more than 2 times
\* in the user's list when the snapshot is taken, and keeps it exactly once.
C1_SnapshotKeepsSeenMoreThanTwice ==
    [][(pc = "sleep" /\ pc' = "report") =>
        /\ Keys(ACTIVE_USERS') = Keys(ACTIVE_USERS)
        /\ \A i \in DOMAIN all_users_log' : all_users_log'[i] \in Keys(ACTIVE_USERS)
        /\ \A u \in Keys(ACTIVE_USERS), x \in IPs :
              /\ Get(ACTIVE_USERS', u)[x] >= 1 <=> Get(ACTIVE_USERS, u)[x] > 2
              /\ Get(ACTIVE_USERS', u)[x] <= 1]_vars

\* a snapshot has emptied bob's list (nothing seen more than twice) and kept
\* one of alice's two IPs
C1_Witness ==
    /\ pc = "report"
    /\ Keys(ACTIVE_USERS) = {"alice", "bob"}
    /\ Get(ACTIVE_USERS, "alice")["ip1"] = 1
    /\ Get(ACTIVE_USERS, "alice")["ip2"] = 0
    /\ Get(ACTIVE_USERS, "bob")["ip1"] = 0

\* C2: a non-exempt user reached by the loop is sent to the warning and the
\* disable call iff the number of its distinct IPs exceeds its special limit,
\* or the general limit when it has none; disable_user is called for exactly
\* the users sent there.
C2_DisableIffOverEffectiveLimit ==
    /\ [][LoopStep =>
            \A p \in LoopFrom..LoopTo :
                all_users_log[p] \notin config_data.EXCEPT_USERS =>
                    ((pc' = "warn" /\ idx' = p) <=>
                     Cardinality(DistinctIps(all_users_log[p])) >
                         EffectiveLimit(all_users_log[p]))]_vars
    /\ [][(pc = "warn" /\ pc' # "warn") =>
            /\ pc' = "disable"
            /\ idx' = idx
            /\ disable_calls' = disable_calls \cup {all_users_log[idx]}]_vars
    /\ [][disable_calls' # disable_calls => (pc = "warn" \/ disable_calls' = {})]_vars

\* alice (2 IPs, special limit 2, general limit 1) was passed over, bob (1 IP,
\* special limit 0) is being disabled
C2_Witness ==
    /\ pc = "disable"
    /\ all_users_log = <<"alice", "bob">>
    /\ idx = 2
    /\ disable_calls = {"bob"}
    /\ config_data.EXCEPT_USERS = {}
    /\ config_data.GENERAL_LIMIT = <<1>>
    /\ DOMAIN config_data.SPECIAL_LIMIT = {"alice", "bob"}
    /\ config_data.SPECIAL_LIMIT["alice"] = 2
    /\ config_data.SPECIAL_LIMIT["bob"] = 0
    /\ Cardinality(DistinctIps("alice")) = 2

\* C3: a user of the exemption set read for the cycle is never passed to
\* disable_user in the cycle, and the purge of the cycle leaves its replica
\* entries alone.
C3_ExemptNeverDisabledNorPurged ==
    /\ [](disable_calls \cap config_data.EXCEPT_USERS = {})
    /\ [](pc \in {"warn", "disable"} => all_users_log[idx] \notin config_data.EXCEPT_USERS)
    /\ [][(pc = "disable" /\ pc' # "disable") =>
            \A u \in config_data.EXCEPT_USERS :
                get_service_ips(service_ips', u) = get_service_ips(service_ips, u)]_vars

\* alice is exempt, has 2 IPs and the special limit 0; the loop went past her
\* and is disabling bob
C3_Witness ==
    /\ pc = "disable"
    /\ all_users_log = <<"alice", "bob">>
    /\ idx = 2
    /\ "alice" \in config_data.EXCEPT_USERS
    /\ "alice" \in DOMAIN config_data.SPECIAL_LIMIT
    /\ config_data.SPECIAL_LIMIT["alice"] = 0
    /\ Cardinality(DistinctIps("alice")) = 2
    /\ get_service_ips(service_ips, "alice") = {"ip1", "ip2"}
    /\ disable_calls = {"bob"}

\* C4: a per-item mutator of the synchronizer writes config.json before Redis:
\* whenever a step changes a replica in Redis, config.json already holds the
\* value that is written.
C4_DurableWrittenBeforeCache ==
    /\ [][redis_special_limits' # redis_special_limits =>
            config.SPECIAL_LIMIT = redis_special_limits']_vars
    /\ [][redis_except_users' # redis_except_users =>
            config.EXCEPT_USERS = redis_except_users']_vars

\* C5: when the write of config.json fails in add_special_limit or
\* remove_special_limit, the special-limit map in Redis after the mutator is the
\* map it held when the mutator was called, and the mutator returns False.
C5_FailedDurableWriteLeavesCache ==
    (/\ mut.stage = "done"
     /\ mut.op \in {"add_special_limit", "remove_special_limit"}
     /\ mut.durable = "failed")
    => (redis_special_limits = mut.before /\ mut.result = FALSE)

\* C6: every run of check_users_usage ends with the aggregator empty.
C6_CycleEndsWithEmptyAggregator ==
    [][(pc # "sleep" /\ pc' = "sleep") => ACTIVE_USERS' = <<>>]_vars

\* C7: after disable_user has failed for a user, the loop goes on with the
\* users that follow: the first of them that is over its limit is sent to the
\* disable call, and the cycle ends only when none of them is.
C7_LoopContinuesAfterFailedDisable ==
    [][(pc = "disable" /\ pc' # "disable" /\ disabled_count' = disabled_count) =>
        /\ pc' \in {"warn", "sleep"}
        /\ \A p \in (idx + 1)..Len(all_users_log) :
              (/\ all_users_log[p] \notin config_data.EXCEPT_USERS
               /\ Cardinality(DistinctIps(all_users_log[p])) >
                      EffectiveLimit(all_users_log[p]))
              => (pc' = "warn" /\ idx' <= p)
        /\ pc' = "warn" =>
              /\ idx' > idx
              /\ Cardinality(DistinctIps(all_users_log[idx'])) >
                     EffectiveLimit(all_users_log[idx'])]_vars

\* the disable call of the first user failed, the second user is being disabled
C7_Witness ==
    /\ pc = "disable"
    /\ idx = 2
    /\ all_users_log[1] \in disable_calls
    /\ disabled_count = 0
(***************************************************************************)
(* Properties of the resolver and of the location filter.                  *)
(***************************************************************************)
\* a step in which coroutine t calls check_ip(x): it either returns at once
\* (the answer is task'[t].country) or sends the first request
CallStep(t, x) ==
    /\ running /\ running'
    /\ task'[t].seq # task[t].seq
    /\ task'[t].ip = x

C10_FailOpen ==
    [][\A t \in Tasks :
          (/\ running /\ running'
           /\ task[t].stage = "http"
           /\ task[t].caller = "parse_logs"
           /\ task'[t].stage = "idle"
           /\ task'[t].country = NoCountry)
          => /\ task[t].left = 1
             /\ CACHE' = CACHE
             /\ IP_CACHE' = IP_CACHE
             /\ cache_file' = cache_file
             /\ INVALID_IPS' = INVALID_IPS
             /\ task[t].ip \in VALID_IPS'
             /\ task[t].email \in Keys(ACTIVE_USERS')
             /\ Get(ACTIVE_USERS', task[t].email)[task[t].ip] =
                    ObsCount(task[t].email, task[t].ip) + 1]_vars

\* all endpoints failed for ip1 while nothing was cached for it: alice's
\* observation is in the aggregator, ip1 is in VALID_IPS
C10_Witness ==
    /\ running
    /\ config.ENABLE_IP_LOCATION_CHECK /\ config.IP_LOCATION = "IR"
    /\ "ip1" \in VALID_IPS
    /\ "ip1" \notin INVALID_IPS
    /\ "ip1" \notin DOMAIN CACHE
    /\ "ip1" \notin DOMAIN IP_CACHE
    /\ resolved["ip1"].last = NoCountry
    /\ ObsCount("alice", "ip1") = 1
    /\ \A t \in Tasks : task[t].stage = "idle"

(***************************************************************************)
(* Properties of the admin console.                                        *)
(***************************************************************************)
\* the handler of the interval conversation answers the number bot'.n
IntervalStep ==
    /\ bot.state = "GET_CHECK_INTERVAL"
    /\ bot'.kind = "number"
    /\ bot' # bot

\* C11: an interval below 10 seconds is refused and config.json keeps the
\* CHECK_INTERVAL it had, an interval of 10 or more is stored; so, from a
\* stored value of at least 10, CHECK_INTERVAL is always at least 10
C11_IntervalAtLeastTen ==
    /\ [](config.CHECK_INTERVAL # Absent /\ config.CHECK_INTERVAL[1] >= 10)
    /\ [][IntervalStep =>
            IF bot'.n < 10
            THEN config' = config /\ bot'.reply = "too_short"
            ELSE config'.CHECK_INTERVAL = <<bot'.n>> /\ bot'.reply = "saved"]_vars

\* an interval of 5 seconds was refused while 10 was stored earlier
C11_Witness ==
    /\ bot.reply = "too_short"
    /\ bot.n = 5
    /\ config.CHECK_INTERVAL = <<10>>


(***************************************************************************)
(* Properties of the purge of the service-IP replica.                      *)
(***************************************************************************)
\* disable_user has returned and the purge of lines 123-134 has run
PurgeStep == pc = "disable" /\ disabled_count' = disabled_count + 1

\* C12: when a user has been disabled and no Redis operation of the purge
\* failed, the hash service_ips holds no entry for that user right after the
\* purge; the purge leaves the entries of every other user as they were
C12_PurgeRemovesDisabledUserOnly ==
    [][PurgeStep =>
         LET u == all_users_log[idx]
         IN  /\ ~purge_failed' =>
                  u \notin DOMAIN service_ips' /\ get_service_ips(service_ips', u) = {}
             /\ \A v \in Users \ {u} :
                  /\ v \in DOMAIN service_ips' <=> v \in DOMAIN service_ips
                  /\ get_service_ips(service_ips', v) = get_service_ips(service_ips, v)]_vars

\* alice has been disabled and purged while bob keeps his replica entry
C12_Witness ==
    /\ pc = "sleep"
    /\ disable_calls = {"alice"}
    /\ disabled_count = 1
    /\ ~purge_failed
    /\ "alice" \notin DOMAIN service_ips
    /\ get_service_ips(service_ips, "bob") = {"ip1"}


(***************************************************************************)
(* Properties of the sources of the enforcement decision.                  *)
(***************************************************************************)
\* the decision of check_users_usage for user u, from the configuration read
\* for the cycle and the aggregator alone
DurableDecision(u) ==
    /\ u \notin config_data.EXCEPT_USERS
    /\ Cardinality(DistinctIps(u)) > EffectiveLimit(u)

\* the positions from LoopFrom on whose user is to be disabled
DurableHits == {p \in LoopFrom..Len(all_users_log) : DurableDecision(all_users_log[p])}

\* C13: the user the loop disables next is the first one over the limits of
\* config.json as read for the cycle, whatever the Redis replicas of the
\* special limits and of the exemptions hold; so two cycles that differ in
\* the replicas only disable the same users
C13_DecisionFromDurableConfigOnly ==
    [][LoopStep =>
         IF DurableHits = {}
         THEN pc' = "sleep"
         ELSE /\ pc' = "warn"
              /\ idx' \in DurableHits
              /\ \A p \in DurableHits : idx' <= p]_vars

\* alice is being disabled under config.json (no exemption, no special limit,
\* general limit 1) while the replicas exempt her and give her the limit 2
C13_Witness ==
    /\ pc = "disable"
    /\ disable_calls = {"alice"}
    /\ config_data.EXCEPT_USERS = {}
    /\ config_data.SPECIAL_LIMIT = <<>>
    /\ redis_except_users = {"alice"}
    /\ redis_special_limits = [x \in {"alice"} |-> 2]


\* C14: the configuration is read when the cycle starts and not again before
\* it ends; every user the loop reaches is judged by the exemptions, special
\* limits and general limit of that read, also when config.json has been
\* edited since; the next cycle starts from config.json as it then is
C14_ConfigReadOncePerCycle ==
    /\ [][pc # "sleep" => config_data' = config_data]_vars
    /\ [][(pc = "sleep" /\ pc' = "report") => config_data' = config]_vars
    /\ [][LoopStep =>
            \A p \in LoopFrom..LoopTo :
                (pc' = "warn" /\ idx' = p) <=> DurableDecision(all_users_log[p])]_vars

\* alice is being disabled under the configuration read for the cycle (general
\* limit 1, not exempt) after config.json was edited to exempt her and to raise
\* the general limit to 2
C14_Witness ==
    /\ pc = "disable"
    /\ disable_calls = {"alice"}
    /\ config_data.GENERAL_LIMIT = <<1>>
    /\ config_data.EXCEPT_USERS = {}
    /\ config_data.SPECIAL_LIMIT = <<>>
    /\ config.GENERAL_LIMIT = <<2>>
    /\ config.EXCEPT_USERS = {"alice"}
    /\ DOMAIN config.SPECIAL_LIMIT = {"alice"}


(***************************************************************************)
(* Properties of the cycle against concurrent ingestion.                   *)
(***************************************************************************)
\* parse_logs appends an observation while check_users_usage is suspended
\* (at the report, at a warning or in disable_user)
IngestInCycle ==
    /\ pc \in {"report", "warn", "disable"}
    /\ pc' = pc
    /\ ACTIVE_USERS' # ACTIVE_USERS

\* the positions of the snapshot the loop has not evaluated yet
NotEvaluated == {p \in DOMAIN all_users_log : p > idx}

\* C15: an observation appended while the cycle is suspended does not change
\* the IPs that will be compared against the limit of a user of the snapshot
\* the loop has not reached yet: they stay the IPs the snapshot kept
C15_SnapshotIsolatedFromIngestion ==
    [][IngestInCycle =>
         \A p \in NotEvaluated :
             {x \in IPs : Get(ACTIVE_USERS', all_users_log[p])[x] >= 1} =
                 DistinctIps(all_users_log[p])]_vars


(***************************************************************************)
(* Properties of the scheduler task.                                       *)
(***************************************************************************)
\* C16: a cycle starts only out of a sleep; when a cycle has ended, with or
\* without an error, the task goes to sleep before anything else, for the
\* CHECK_INTERVAL of config.json or, when that cannot be read, for 30 seconds
\* after the error report; and as long as the task is not cancelled another
\* cycle starts
C16_SchedulerSleepsThenRunsAgain ==
    /\ [][pc' = "report" => (pc = "sleep" \/ pc = "report")]_vars
    /\ [][(pc \notin {"sleep", "monitor_error", "cancelled"}
             /\ pc' \in {"sleep", "monitor_error"}) =>
            IF config.CHECK_INTERVAL # Absent
            THEN pc' = "sleep" /\ delay' = config.CHECK_INTERVAL[1] /\ delay' > 0
            ELSE pc' = "monitor_error"]_vars
    /\ [][(pc = "monitor_error" /\ pc' # pc) => (pc' = "sleep" /\ delay' = 30)]_vars
    /\ [][(pc = "sleep" /\ pc' = "sleep") => delay' = delay]_vars
    /\ []<>(pc = "report" \/ pc = "cancelled")

\* the scheduler sleeps the fallback delay after a cycle that failed for want
\* of a general limit, CHECK_INTERVAL being unreadable as well
C16_Witness ==
    /\ pc = "sleep"
    /\ delay = 30
    /\ config.GENERAL_LIMIT = Absent
    /\ config.CHECK_INTERVAL = Absent
    /\ ACTIVE_USERS # <<>>


(***************************************************************************)
(* Properties of ingestion against a failing Redis.                        *)
(***************************************************************************)
\* parse_logs has been given the batch batch'
BatchStep == batch' # batch \/ (batch # <<>> /\ ACTIVE_USERS' # ACTIVE_USERS /\ pc' = pc)

\* the number of times ip stands in the list of email
Observed(d, email, ip) == IF email \in Keys(d) THEN Get(d, email)[ip] ELSE 0

\* C17: whatever pushes to Redis fail, every line of a batch is appended to
\* the aggregator, the lines after a failed push included: each list grows by
\* the number of lines of the batch with that user and IP; the replica
\* receives the IPs whose push succeeded
C17_RedisFailureDoesNotAbortParsing ==
    [][BatchStep =>
         /\ \A l \in Lines :
              Observed(ACTIVE_USERS', l.email, l.ip) =
                  Observed(ACTIVE_USERS, l.email, l.ip) + Occurrences(batch', l.email, l.ip)
         /\ \A i \in DOMAIN batch' :
              batch'[i].redis_ok =>
                  batch'[i].ip \in get_service_ips(service_ips', batch'[i].email)]_vars

\* the push of the first line (alice, ip1) failed; the second line (alice,
\* ip2) has been appended and pushed all the same
C17_Witness ==
    /\ Len(batch) = 2
    /\ batch[1].ip = "ip1" /\ ~batch[1].redis_ok
    /\ batch[2].ip = "ip2" /\ batch[2].redis_ok
    /\ Observed(ACTIVE_USERS, "alice", "ip1") = 1
    /\ Observed(ACTIVE_USERS, "alice", "ip2") = 1
    /\ get_service_ips(service_ips, "alice") = {"ip2"}

\* a step of GET /api/connected-ips that clears the replica
ClearStep == last_refresh_time' # last_refresh_time /\ service_ips' = <<>>

\* a step that appends an observation
AddStep == ACTIVE_USERS' # ACTIVE_USERS /\ ACTIVE_USERS' # <<>>

C19_StartupWaitsForRequiredConfig ==
    /\ [][(pc \in StartupPositions) =>
            /\ ACTIVE_USERS' = ACTIVE_USERS
            /\ service_ips' = service_ips
            /\ all_users_log' = all_users_log
            /\ disable_calls' = disable_calls]_vars
    /\ [][(pc \in StartupPositions /\ pc' \notin StartupPositions) =>
            (pc = "load_config" /\ config.PANEL_DOMAIN # Absent /\ pc' = "sleep")]_vars
    /\ [][(pc = "load_config" /\ config.PANEL_DOMAIN = Absent /\ pc' # pc) =>
            pc' = "config_error"]_vars
    /\ [][(pc = "config_error" /\ pc' # pc) => pc' = "config_notice"]_vars
    /\ [][(pc = "config_notice" /\ pc' # pc) => (pc' = "retry_wait" /\ delay' = 60)]_vars
    /\ [][(pc = "retry_wait" /\ pc' # pc) => pc' = "load_config"]_vars
    /\ [](pc = "retry_wait" => delay = 60)
    /\ []<>(pc = "load_config" \/ pc \notin StartupPositions)
    /\ (config.PANEL_DOMAIN # Absent) ~> (pc \notin StartupPositions)

\* the credentials are missing: the admins were told, main is in the sleep of
\* 60 seconds and nothing has been ingested
C19_Witness ==
    /\ config.PANEL_DOMAIN = Absent
    /\ pc = "retry_wait"
    /\ delay = 60
    /\ ACTIVE_USERS = <<>>
    /\ service_ips = <<>>

\* the synchronization of the fact of a pending console edit has completed
Reconciled == pending.fact # "none" /\ pending'.fact = "none"

\* the pending edit of alice is in the durable store
Committed(p, data) ==
    IF p.fact = "special"
    THEN p.user \in DOMAIN data.SPECIAL_LIMIT /\ data.SPECIAL_LIMIT[p.user] = p.limit
    ELSE p.user \in data.EXCEPT_USERS

\* C20: when a console edit of alice was written to config.json and its push
\* to Redis failed, the next completed synchronization of that fact leaves
\* the Redis copy of the fact equal to config.json, with alice's edit in it.
C20_ReconciledTowardsDurable ==
    [][(Reconciled /\ pending.user = "alice") =>
          /\ Committed(pending, config')
          /\ pending.fact = "special" => redis_special_limits' = config'.SPECIAL_LIMIT
          /\ pending.fact # "special" => redis_except_users' = config'.EXCEPT_USERS]_vars

\* C21: when the push to Redis and the read of Redis both succeed, the
\* answer of GET /api/special-limits is the SPECIAL_LIMIT of config.json and
\* the answer of GET /api/except-users is its EXCEPT_USERS; Redis then holds
\* the same value, whatever it held before the request.
C21_ReadServedFromPopulatedCache ==
    [][(response' # response /\ response'.redis_ok) =>
          IF response'.route = "special-limits"
          THEN /\ response'.limits = config'.SPECIAL_LIMIT
               /\ response'.limits = redis_special_limits'
               /\ config' = config
          ELSE /\ response'.users = config'.EXCEPT_USERS
               /\ response'.users = redis_except_users'
               /\ config' = config]_vars

\* the first read of the special limits with an empty cache, and the answer
\* holds alice's limit of config.json
C21_Witness ==
    /\ response.route = "special-limits"
    /\ response.seq = 1
    /\ response.redis_ok
    /\ response.limits # <<>>
    /\ response.limits = redis_special_limits
    /\ pending = NoPending

\* C22: an error inside the cycle is reported by check_users_usage itself,
\* which then returns: the scheduler reads CHECK_INTERVAL and sleeps it, as
\* after a cycle without error.  The sleep of 30 seconds follows the report
\* of an error of the scheduler's own step, the read of CHECK_INTERVAL.
C22_FallbackAfterSchedulerError ==
    /\ [][(pc = "error_report" /\ pc' # pc) =>
            IF config.CHECK_INTERVAL # Absent
            THEN pc' = "sleep" /\ delay' = config.CHECK_INTERVAL[1]
            ELSE pc' = "monitor_error"]_vars
    /\ [][(pc = "monitor_error" /\ pc' # pc) => (pc' = "sleep" /\ delay' = 30)]_vars
    /\ [][(pc \in {"report", "disable"} /\ pc' = "sleep") =>
            (config.CHECK_INTERVAL # Absent /\ delay' = config.CHECK_INTERVAL[1])]_vars

\* the cycle failed for the missing GENERAL_LIMIT and the scheduler sleeps
\* the 60 seconds of CHECK_INTERVAL
C22_Witness ==
    /\ pc = "sleep"
    /\ delay = 60
    /\ config_data.GENERAL_LIMIT = Absent
    /\ config.CHECK_INTERVAL = <<60>>

\* C22 as stated: the sleep that follows the report of a failed cycle is the
\* fallback of 30 seconds
C22_FailedCycleSleepsFallback ==
    [][(pc = "error_report" /\ pc' = "sleep") => delay' = 30]_vars

\* C23: the sleep after a cycle lasts the CHECK_INTERVAL that config.json
\* holds when the cycle ends; a CHECK_INTERVAL saved while the scheduler
\* sleeps leaves the scheduler asleep with the same duration.
C23_IntervalReadAfterEachCycle ==
    /\ [][(pc \in {"report", "disable", "error_report"} /\ pc' = "sleep") =>
            (config' = config /\ delay' = config.CHECK_INTERVAL[1])]_vars
    /\ [][(pc = "sleep" /\ config'.CHECK_INTERVAL # config.CHECK_INTERVAL) =>
            (pc' = "sleep" /\ delay' = delay)]_vars

\* the scheduler sleeps 60 seconds and CHECK_INTERVAL has become 10 meanwhile
C23_Witness ==
    /\ pc = "sleep"
    /\ delay = 60
    /\ config.CHECK_INTERVAL = <<10>>
    /\ bot.reply = "saved"

\* a line is parsed from its start: no coroutine comes back from a request
LineStep == \A t \in Tasks : task[t].stage = "http" => task'[t] = task[t]

ReplicaCount(s, email, ip) == IF ip \in get_service_ips(s, email) THEN 1 ELSE 0

\* C24: an answer with another country than IP_LOCATION puts the IP in
\* INVALID_IPS and appends nothing; a line parsed while its IP is in
\* INVALID_IPS starts no lookup and appends nothing to ACTIVE_USERS or to the
\* replica.
C24_MismatchedIpStaysDiscarded ==
    /\ [][\A t \in Tasks :
            (/\ task[t].stage = "http" /\ task[t].caller = "parse_logs"
             /\ task'[t].stage = "idle"
             /\ task'[t].country \notin {NoCountry, config.IP_LOCATION}) =>
               /\ task[t].ip \in INVALID_IPS'
               /\ ACTIVE_USERS' = ACTIVE_USERS
               /\ service_ips' = service_ips]_vars
    /\ [][\A ip \in INVALID_IPS \cap GeoIPs :
            LineStep =>
               /\ \A e \in GeoUsers :
                     /\ CountIn(ACTIVE_USERS', e, ip) <= CountIn(ACTIVE_USERS, e, ip)
                     /\ ReplicaCount(service_ips', e, ip) <= ReplicaCount(service_ips, e, ip)
               /\ \A t \in Tasks :
                     (task'[t].stage = "http" /\ task'[t].caller = "parse_logs"
                        /\ task[t].stage # "http") => task'[t].ip # ip]_vars

\* the IP of the line is on the blacklist (built in or configured), is private
\* or loopback, or is no address
BadIp(l, blacklist) ==
    l.ip \in blacklist \/ l.ip \in PrivateIPs \/ l.ip \in MalformedIPs

\* C25: the lines of a batch whose IP is on the blacklist, private, loopback
\* or malformed add nothing: the aggregator and the replica after the batch
\* are those the batch without these lines gives.
C25_BadIpNeverObserved ==
    [][(batch' # batch /\ batch' \in LogBatches) =>
          LET blacklist == INVALID_IPS \cup config.INVALID_IPS
              rest == SelectSeq(batch', LAMBDA l : ~BadIp(l, blacklist))
          IN  /\ ACTIVE_USERS' = ParseLog(BatchStart, rest).agg
              /\ service_ips' = ParseLog(BatchStart, rest).ips]_vars

\* C26: the lines of a batch that are not accepted connections, are marked
\* blocked, carry no address or no user name, or a user name of the stoplist
\* add nothing and stop nothing: the aggregator and the replica after the
\* batch are those the batch without these lines gives.
C26_UnusableLinesAreSkipped ==
    [][(batch' # batch /\ batch' \in LogBatches) =>
          LET rest == SelectSeq(batch', LAMBDA l : ~(Skipped(l) \/ NoUser(l)))
          IN  /\ ACTIVE_USERS' = ParseLog(BatchStart, rest).agg
              /\ service_ips' = ParseLog(BatchStart, rest).ips
              /\ Keys(ACTIVE_USERS') \subseteq {"alice"}
              /\ \A x \in IPs :
                    CountIn(ACTIVE_USERS', "alice", x) =
                       CountIn(ACTIVE_USERS, "alice", x)
                         + Cardinality({i \in DOMAIN batch' :
                              /\ ~Skipped(batch'[i]) /\ ~NoUser(batch'[i])
                              /\ batch'[i].ip = x
                              /\ \/ x \in VALID_IPS
                                 \/ x \notin INVALID_IPS \cup config.INVALID_IPS})]_vars

\* a line with a name of the stoplist came first, the line of 12.alice after
\* it has been appended under the name alice
C26_Witness ==
    /\ Len(batch) = 2
    /\ batch[1] = GoodLine("ip1", <<"7", "INFO">>)
    /\ batch[2] = GoodLine("ip1", <<"12", "alice">>)
    /\ Len(ACTIVE_USERS) = 1
    /\ CountIn(ACTIVE_USERS, "alice", "ip1") = 1
    /\ get_service_ips(service_ips, "alice") = {"ip1"}

\* line 269: the location filter is off, or IP_LOCATION is the string "None"
FilterOff == ~(config.ENABLE_IP_LOCATION_CHECK /\ config.IP_LOCATION # "None")

\* C27: with the location filter off no parse_logs coroutine is ever inside
\* check_ip, the parser puts no IP in INVALID_IPS, and a line with a public IP
\* that is not in INVALID_IPS can be parsed only one way: the observation is
\* appended and the IP is in VALID_IPS, without a lookup and without a write
\* of the geolocation cache.
C27_FilterOffAcceptsWithoutLookup ==
    /\ [](FilterOff =>
            /\ \A t \in Tasks : task[t].caller # "parse_logs"
            /\ INVALID_IPS \cap GeoIPs = {})
    /\ [](\A t \in Tasks, e \in GeoUsers, ip \in GeoIPs :
            (/\ FilterOff /\ running /\ task[t].stage = "idle"
             /\ ObsCount(e, ip) + Cardinality(InFlight) < MaxCount
             /\ ip \notin INVALID_IPS) =>
               ENABLED (/\ parse_line(t, e, ip, TRUE)
                        /\ CountIn(ACTIVE_USERS', e, ip) = CountIn(ACTIVE_USERS, e, ip) + 1
                        /\ ip \in get_service_ips(service_ips', e)
                        /\ ip \in VALID_IPS'
                        /\ task'[t].stage = "idle"
                        /\ CACHE' = CACHE))

C27_Witness ==
    /\ ~config.ENABLE_IP_LOCATION_CHECK
    /\ config.IP_LOCATION = "IR"
    /\ CountIn(ACTIVE_USERS, "alice", "ip1") = 2
    /\ "ip1" \in VALID_IPS
    /\ CACHE = <<>>
    /\ \A t \in Tasks : task[t].stage = "idle"

\* the position in the order of the first endpoint that answers with a
\* country, NumEndpoints + 1 if none does
FirstSuccess(order, answers) ==
    IF \E i \in Endpoints : answers[order[i]] \in Codes
    THEN CHOOSE i \in Endpoints :
            /\ answers[order[i]] \in Codes
            /\ \A j \in 1..(i - 1) : answers[order[j]] \notin Codes
    ELSE NumEndpoints + 1

\* C28: a lookup that misses the cache queries the endpoints in the shuffled
\* order.  The answer of the endpoint queried decides the step: a country
\* ends the call, which returns it with the country in CACHE and in IP_CACHE,
\* and this endpoint is the first of the order that answers with a country;
\* a failure moves the call to the next endpoint of the order, or after the
\* last one ends it with no country and both caches as they were.
C28_FirstSuccessInShuffledOrder ==
    [][\A t \in Tasks :
          (task[t].stage = "http" /\ task'[t] # task[t] /\ running') =>
             LET tk == task[t]
                 pos == NumEndpoints - tk.left + 1
                 r == tk.answers[tk.endpoints[pos]]
             IN  IF r \in Codes
                 THEN /\ task'[t].stage = "returned"
                      /\ task'[t].country = r
                      /\ pos = FirstSuccess(tk.endpoints, tk.answers)
                      /\ tk.ip \in DOMAIN CACHE' /\ CACHE'[tk.ip] = r
                      /\ tk.ip \in DOMAIN IP_CACHE' /\ IP_CACHE'[tk.ip].country_code = r
                 ELSE IF pos < NumEndpoints
                 THEN /\ task'[t].stage = "http"
                      /\ Queried(task'[t]) = tk.endpoints[pos + 1]
                      /\ pos + 1 <= FirstSuccess(tk.endpoints, tk.answers)
                      /\ CACHE' = CACHE /\ IP_CACHE' = IP_CACHE
                 ELSE /\ task'[t].stage = "returned"
                      /\ task'[t].country = NoCountry
                      /\ FirstSuccess(tk.endpoints, tk.answers) = NumEndpoints + 1
                      /\ CACHE' = CACHE /\ IP_CACHE' = IP_CACHE]_vars

C28_Witness ==
    /\ task["t1"].stage = "http"
    /\ task["t1"].endpoints = <<3, 1, 4, 2>>
    /\ task["t1"].answers = <<"DE", "IR", "fail", "fail">>
    /\ Queried(task["t1"]) = 1

\* the entries of IP_CACHE that were written after the last save of the file
Unflushed ==
    {x \in DOMAIN IP_CACHE :
        /\ Fresh(IP_CACHE[x], now)
        /\ x \notin DOMAIN cache_file \/ cache_file[x] # IP_CACHE[x]}

\* C29: fewer than 20 entries of IP_CACHE have been resolved since the file
\* was last saved, entries that replace an expired one included.
C29_FlushedEveryTwentyResolutions == Cardinality(Unflushed) < FlushEvery

\* a request to GET /api/connected-ips that finds it is time to clear
TriggerStep == running /\ running' /\ last_refresh_time' # last_refresh_time

\* C30: a request clears the replica exactly when the interval has passed
\* since the last bulk clear, whose time is last_update_timestamp; the clear
\* leaves no service with IPs and sets last_update_timestamp to its time.
C30_ClearedWhenIntervalElapsed ==
    /\ [](running => (time_to_clear <=> now - last_update_timestamp[1] >= check_interval))
    /\ [][TriggerStep => (service_ips' = <<>> /\ last_update_timestamp' = <<now>>)]_vars

\* C31: every user of the mapping the snapshot returns has at least one IP
\* left in its list.
C31_SnapshotHasNoEmptyUser ==
    [][(pc = "sleep" /\ pc' = "report") =>
          \A i \in DOMAIN all_users_log' :
              Size(Get(ACTIVE_USERS', all_users_log'[i])) > 0]_vars

\* C32: the loop sends no user to the warning and the disable call whose
\* list is empty when the user is evaluated.
C32_EmptySetNeverDisabled ==
    [][(LoopStep /\ pc' = "warn") =>
          Size(Get(ACTIVE_USERS, all_users_log[idx'])) > 0]_vars

\* C33: every special limit in config.json and in Redis is at least 1.
C33_SpecialLimitsPositive ==
    /\ \A u \in DOMAIN config.SPECIAL_LIMIT : config.SPECIAL_LIMIT[u] >= 1
    /\ \A u \in DOMAIN redis_special_limits : redis_special_limits[u] >= 1

\* C34: the scheduler task does not stop between the warning for a user and
\* the end of that user's disable call and purge; when a cancellation stops
\* it inside a cycle, the aggregator is empty or holds no user whose list the
\* snapshot has emptied.
C34_CancelCompletesEvaluation ==
    /\ [][(pc # "cancelled" /\ pc' = "cancelled") => pc \notin {"warn", "disable"}]_vars
    /\ [][(pc \notin {"sleep", "cancelled"} /\ pc' = "cancelled") =>
            \A i \in DOMAIN ACTIVE_USERS' : Size(ACTIVE_USERS'[i].ip) > 0]_vars


(***************************************************************************)
(* The frame of the per-item mutators on config.json.  config.json is not  *)
(* written between the call of a mutator and its own write_config (no      *)
(* other mutator or push starts while mut.stage = "config"), so the value  *)
(* before the call is the value before the step that writes config.json.   *)
(***************************************************************************)
LimitOf(m, u) == IF u \in DOMAIN m THEN <<m[u]>> ELSE Absent

ChangedLimits(old, new) == {u \in Users : LimitOf(old, u) # LimitOf(new, u)}

ChangedExempt(old, new) == {u \in Users : (u \in old) # (u \in new)}

MutatorWritesConfig == mut.stage = "config" /\ mut'.stage = "done" /\ mut'.durable = "ok"

\* C35: a per-item mutator changes the entry of the user it names and of no
\* other user in config.json: the write of config.json that ends add or remove
\* special limit changes the special limit of at most one user, and the one
\* that ends add or remove exemption changes the membership of at most one
\* username, whatever Redis held when the mutator was called
C35_MutatorChangesOneEntry ==
    [][MutatorWritesConfig =>
          /\ Cardinality(ChangedLimits(config.SPECIAL_LIMIT, config'.SPECIAL_LIMIT)) <= 1
          /\ Cardinality(ChangedExempt(config.EXCEPT_USERS, config'.EXCEPT_USERS)) <= 1]_vars


\* C36: taking the snapshot leaves the aggregator as it was: the step of the
\* cycle that calls check_ip_used changes neither the users of ACTIVE_USERS nor
\* the number of times each IP is stored for a user, so a second snapshot of
\* the same aggregator returns the same mapping
C36_SnapshotLeavesAggregator ==
    [][(pc = "sleep" /\ pc' = "report") =>
          /\ ACTIVE_USERS' = ACTIVE_USERS
          /\ check_ip_used(ACTIVE_USERS') = check_ip_used(ACTIVE_USERS)]_vars


(***************************************************************************)
(* The clear at the end of a cycle against the observations parse_logs     *)
(* appended while the cycle was suspended.  The snapshot leaves every IP   *)
(* of a user at most once in the aggregator and names every user of the    *)
(* aggregator, so at the end of the cycle a user the snapshot does not     *)
(* name, and every copy of an IP beyond the first, was appended after the  *)
(* snapshot.                                                               *)
(***************************************************************************)
SnapshotUsers == {all_users_log[i] : i \in DOMAIN all_users_log}

AppendedInCycle(u, x) ==
    IF u \in SnapshotUsers
    THEN IF CountIn(ACTIVE_USERS, u, x) > 1 THEN CountIn(ACTIVE_USERS, u, x) - 1 ELSE 0
    ELSE CountIn(ACTIVE_USERS, u, x)

CycleEnds == pc \in {"report", "disable"} /\ pc' = "sleep"

\* C37: the clear at the end of a cycle does not discard the observations
\* appended after the cycle's snapshot: each of them is still in the aggregator
\* when the cycle has ended, to be counted in the window of the next cycle
C37_ClearKeepsLateObservations ==
    [][CycleEnds =>
          \A u \in Users, x \in IPs :
              CountIn(ACTIVE_USERS', u, x) >= AppendedInCycle(u, x)]_vars


(***************************************************************************)
(* The order of the steps taken for a violator.                            *)
(***************************************************************************)
Purged(u) == get_service_ips(service_ips, u) \ get_service_ips(service_ips', u)

\* C38: for every violator the warning comes before the disable call and the
\* purge after its success: disable_user is called only when the warning for
\* that user has been sent; entries of the replica are removed only in the step
\* in which disable_user returns successfully, and only those of the user it
\* disabled; when disable_user fails the replica is left as it was
C38_WarningDisablePurge ==
    /\ [][(pc # "disable" /\ pc' = "disable") =>
             /\ pc = "warn"
             /\ idx' = idx
             /\ disable_calls' = disable_calls \cup {all_users_log[idx]}]_vars
    /\ [][(disable_calls' # disable_calls /\ pc # "sleep") =>
             (pc = "warn" /\ pc' = "disable")]_vars
    /\ [][\A u \in Users : Purged(u) # {} =>
             /\ pc = "disable"
             /\ u = all_users_log[idx]
             /\ u \in disable_calls
             /\ disabled_count' = disabled_count + 1]_vars
    /\ [][(pc = "disable" /\ pc' # "disable" /\ disabled_count' = disabled_count) =>
             service_ips' = service_ips]_vars

\* a cycle has ended in which one violator was disabled and purged and the
\* disable call of another one failed, whose entries are still in the replica
C38_Witness ==
    /\ pc = "sleep"
    /\ disabled_count = 1
    /\ \E u \in disable_calls, v \in disable_calls :
          /\ u # v
          /\ get_service_ips(service_ips, u) = {}
          /\ get_service_ips(service_ips, v) # {}
          /\ purge_failed = FALSE


(***************************************************************************)
(* The two tiers of the geolocation cache under concurrent lookups.        *)
(***************************************************************************)
\* C39: the two tiers of the geolocation cache agree: whenever CACHE holds a
\* country code for an address and IP_CACHE holds an entry for it that has not
\* expired, the two codes are the same, also when several calls resolve the
\* address at the same time and get different answers; the code is then the
\* one of the resolution that finished last
C39_CacheTiersAgree ==
    \A ip \in DOMAIN CACHE \cap DOMAIN IP_CACHE :
        Fresh(IP_CACHE[ip], now) =>
            /\ CACHE[ip] = IP_CACHE[ip].country_code
            /\ resolved[ip].last_at = now => CACHE[ip] = resolved[ip].last

\* two calls resolved ip1 at the same time with different answers: one still
\* holds the answer it got first, both tiers hold the answer that came last
C39_Witness ==
    /\ "ip1" \in DOMAIN CACHE \cap DOMAIN IP_CACHE
    /\ Fresh(IP_CACHE["ip1"], now)
    /\ resolved["ip1"].first_at = resolved["ip1"].last_at
    /\ resolved["ip1"].first # resolved["ip1"].last
    /\ CACHE["ip1"] = resolved["ip1"].last
    /\ \E t \in Tasks :
          /\ task[t].stage = "returned"
          /\ task[t].ip = "ip1"
          /\ task[t].country = resolved["ip1"].first


(***************************************************************************)
(* The shape of the replica of the service IPs.                            *)
(***************************************************************************)
\* C40: no service is stored in the replica with an empty IP set: after any
\* sequence of additions, removals and clears every key of service_ips maps to
\* at least one IP; and adding an IP the service already has leaves the
\* service's set, and the whole replica, as it was
C40_NoEmptyServiceEntry ==
    /\ \A u \in DOMAIN service_ips : service_ips[u] # {}
    /\ \A u \in DOMAIN service_ips : \A ip \in service_ips[u] :
          add_ip_to_service(service_ips, u, ip) = service_ips

\* alice was disabled and all her entries removed; since then ip1 was
\* observed for her twice and is stored once
C40_Witness ==
    /\ pc = "sleep"
    /\ disabled_count = 1
    /\ ~purge_failed
    /\ CountIn(ACTIVE_USERS, "alice", "ip1") >= 2
    /\ service_ips = [u \in {"alice"} |-> {"ip1"}]

====
